---------------------------- MODULE Spec2Model ----------------------------
(***************************************************************************)
(* SpMV benchmark (CSR builder, SpMV kernels, warm-up pass, metrics).      *)
(*                                                                         *)
(* Conventions.  A std::vector is a TLA+ sequence, so the C++ element      *)
(* v[i] is v[i+1] here.  A raw array obtained with new T[n] is a function  *)
(* on 0..n-1 and keeps the C++ indices; a cell that was never assigned     *)
(* holds Uninit.  A null array pointer is the empty function <<>>.         *)
(* double values are modelled by integers: the inputs are small integers,  *)
(* on which double addition and multiplication are exact.                  *)
(***************************************************************************)
EXTENDS Integers, Sequences, FiniteSets, TLC

VARIABLES
    file,       \* the .mtx input: whether it opens, its dimension line, its triplets
    entries,    \* the vector<Entry> handed to buildFromEntries
    csr,        \* the CSRMatrix object
    pc,         \* where the program is: the outcome of its last operation
    err,        \* what() of the last exception thrown, "" when none
    x,          \* the input vector
    opts,       \* schedulingType, chunkSize, numThreads (CLIOptions)
    openmp,     \* whether the build defines _OPENMP
    fn,         \* the function the parallel loop runs in: "SpMV" or "warmUp"
    y,          \* the output array of the running (or last) parallel call
    wk,         \* the threads of the team: position, chunk, private counters
    nextIter,   \* the first loop iteration not yet handed out (dynamic, guided)
    assigned,   \* per row: how many times the runtime handed it to a thread
    nwrites,    \* per row: how many times y[i] was stored
    visited,    \* per row: the j the inner loop visited, in order
    ySeq,       \* the output array of the sequential kernel
    duration,   \* the elapsed time the last call reported (ms)
    warm,       \* parallel warmUp: bytesMoved, flopsMoved, passes run, value returned
    warmSeq,    \* sequential warmUp: the same
    rm,         \* the ResultsManager object
    samplesIn,  \* the durations the timed iterations measure, in order
    hist,       \* what the manager was last given: the counters supplied, and the
                \* number of computeAllMetrics calls completed in a row
    run         \* the process: argv, the OpenMP runtime's maximum, CLIOptions,
                \* what it wrote to stdout, its exit status, the steps main took

csrVars == <<file, entries, csr>>
loopVars == <<y, wk, nextIter, assigned, nwrites, visited>>
kernelVars == <<x, opts, openmp, fn, loopVars, ySeq, duration, warm, warmSeq>>
rmVars == <<rm, samplesIn, hist>>

vars == <<csrVars, pc, err, kernelVars, rmVars, run>>

---------------------------------------------------------------------------
(* Bounds of the model *)

MaxRows == 3
MaxCols == 2
MaxNnz == 3

(* Content of a cell of a new[] array that has not been assigned *)
Uninit == -999

Values == {1, 2}

---------------------------------------------------------------------------
(* Helpers *)

Max(a, b) == IF a >= b THEN a ELSE b
Min(a, b) == IF a <= b THEN a ELSE b

NewArray(n) == [k \in 0..(n - 1) |-> Uninit]

RECURSIVE SeqsUpTo(_, _)
SeqsUpTo(S, n) ==
    IF n = 0 THEN {<<>>}
    ELSE LET shorter == SeqsUpTo(S, n - 1)
         IN  shorter \cup {Append(s, e) : s \in {t \in shorter : Len(t) = n - 1}, e \in S}

---------------------------------------------------------------------------
(* mtx::Entry and the comparator readMTX sorts with *)

Entry(r, c, v) == [row |-> r, col |-> c, value |-> v]

EntryLess(a, b) == IF a.row = b.row THEN a.col < b.col ELSE a.row < b.row

SortedEntries(es) == \A k \in 1..(Len(es) - 1) : ~EntryLess(es[k + 1], es[k])

NonNegative(es) == \A k \in 1..Len(es) : es[k].row >= 0 /\ es[k].col >= 0

EntryPool == {Entry(r, c, v) : r \in 0..(MaxRows - 1), c \in 0..(MaxCols - 1), v \in Values}

(* The vectors given to the builder: every (row, col)-sorted vector of at  *)
(* most MaxNnz entries, the empty vector, and the short unsorted ones.     *)
BuildInputs ==
    {es \in SeqsUpTo(EntryPool, MaxNnz) : SortedEntries(es) \/ Len(es) <= 2}

---------------------------------------------------------------------------
(* CSRMatrix *)

(* CSRMatrix::CSRMatrix() and the state clear() leaves *)
EmptyCSR ==
    [indexPointers |-> <<>>, indices |-> <<>>, data |-> <<>>,
     rows |-> 0, cols |-> 0, nnz |-> 0]

RECURSIVE MaxRowOf(_, _)
MaxRowOf(es, k) ==
    IF k = 1 THEN es[1].row ELSE Max(MaxRowOf(es, k - 1), es[k].row)

(* Mutant: the column of the last entry instead of the largest column *)
LastColOf(es, k) == es[k].col

RECURSIVE MaxColOf(_, _)
MaxColOf(es, k) ==
    IF k = 1 THEN es[1].col ELSE Max(MaxColOf(es, k - 1), es[k].col)

(* Mutant: an if in place of the while, so skipped rows get no pointer *)
FillTargetOnly(ip, currentRow, target, v) ==
    [k \in DOMAIN ip |-> IF currentRow < k /\ k = target THEN v ELSE ip[k]]

(* while (currentRow < target) { currentRow++; indexPointers[currentRow] = v; } *)
FillRowPointers(ip, currentRow, target, v) ==
    [k \in DOMAIN ip |-> IF currentRow < k /\ k <= target THEN v ELSE ip[k]]

(* The loop over entries, from C++ index i (0-based) on *)
RECURSIVE BuildLoop(_, _, _)
BuildLoop(es, i, st) ==
    IF i >= Len(es) THEN st
    ELSE LET e == es[i + 1]
             ip == FillRowPointers(st.indexPointers, st.currentRow, e.row, i)
         IN  BuildLoop(es, i + 1,
                 [currentRow    |-> Max(st.currentRow, e.row),
                  indexPointers |-> ip,
                  indices       |-> [st.indices EXCEPT ![i] = e.col],
                  data          |-> [st.data EXCEPT ![i] = e.value]])

(* CSRMatrix::buildFromEntries on a non-empty vector *)
BuildCSR(es) ==
    LET nnz  == Len(es)
        rows == MaxRowOf(es, Len(es)) + 1
        cols == MaxColOf(es, Len(es)) + 1
        st0  == [currentRow    |-> 0,
                 indexPointers |-> [NewArray(rows + 1) EXCEPT ![0] = 0],
                 indices       |-> NewArray(nnz),
                 data          |-> NewArray(nnz)]
        st1  == BuildLoop(es, 0, st0)
    IN  [indexPointers |-> FillRowPointers(st1.indexPointers, st1.currentRow, rows, nnz),
         indices       |-> st1.indices,
         data          |-> st1.data,
         rows |-> rows, cols |-> cols, nnz |-> nnz]

EmptyInputError == "Cannot build CSR: entries vector is empty."

(* Mutant: clear() runs before the test for an empty vector *)
ClearBeforeCheck(es) ==
    /\ IF es = <<>>
       THEN /\ err' = EmptyInputError
            /\ pc' = "build_threw"
            /\ csr' = EmptyCSR
       ELSE /\ csr' = BuildCSR(es)
            /\ err' = ""
            /\ pc' = "built"
    /\ UNCHANGED <<file, entries, kernelVars, rmVars, run>>

BuildFromEntries(es) ==
    /\ IF es = <<>>
       THEN /\ err' = EmptyInputError
            /\ pc' = "build_threw"
            /\ UNCHANGED csr
       ELSE /\ csr' = BuildCSR(es)
            /\ err' = ""
            /\ pc' = "built"
    /\ UNCHANGED <<file, entries, kernelVars, rmVars, run>>

Clear ==
    /\ csr' = EmptyCSR
    /\ pc' = "cleared"
    /\ UNCHANGED <<file, entries, err, kernelVars, rmVars, run>>

(* A program that reads no file *)
NoFile == [exists |-> FALSE, header |-> <<>>, triplets |-> <<>>]

(* size_t bytesMoved = 0, flopsMoved = 0 in main; no pass run, nothing    *)
(* returned (ret is the set of values a call returned: empty for void)   *)
NoWarmUp == [bytesMoved |-> 0, flopsMoved |-> 0, passes |-> 0, ret |-> {}]

(* The double 0.0 of a rate field: a rate is kept as an exact fraction *)
ZeroRate == [num |-> 0, den |-> 1]

(* ResultsManager() = default: the member initialisers of ResultsManager.h *)
FreshManager ==
    [csrMatrix |-> "nullptr", numThreads |-> 0, schedulingType |-> "",
     chunkSize |-> 0, matrixName |-> "", sequential |-> TRUE,
     warmupDuration |-> 0, iterationDurations |-> <<>>,
     duration90 |-> 0, flops |-> 0, bytesMoved |-> 0,
     gflops |-> ZeroRate, bandwidthGBps |-> ZeroRate,
     arithmeticIntensity |-> ZeroRate, errors |-> <<>>]

(* A program that has not touched its ResultsManager *)
(* No counter supplied by setRealTimeMetrics, no computeAllMetrics call *)
NoHistory == [supplied |-> [bytesMoved |-> 0, flops |-> 0], calls |-> 0]

NoMetrics ==
    /\ rm = FreshManager
    /\ samplesIn = <<>>
    /\ hist = NoHistory

(* No process: the operations are called one by one, outside main *)
NoRun == [argv |-> <<>>, ompEnv |-> [set |-> FALSE, value |-> 0], maxThreads |-> 0,
          iterations |-> 0, filePath |-> "",
          out |-> <<>>, exit |-> -1, steps |-> <<>>]

(* The kernel state before any kernel call *)
NoKernel ==
    /\ x = <<>>
    /\ opts = [schedulingType |-> "static", chunkSize |-> 0, numThreads |-> 1]
    /\ openmp = TRUE
    /\ fn = "SpMV"
    /\ y = <<>> /\ wk = <<>> /\ nextIter = 0
    /\ assigned = <<>> /\ nwrites = <<>> /\ visited = <<>>
    /\ ySeq = <<>>
    /\ duration = 0
    /\ warm = NoWarmUp
    /\ warmSeq = NoWarmUp

InitBuild ==
    /\ file = NoFile
    /\ entries \in BuildInputs
    /\ csr = EmptyCSR
    /\ pc = "constructed"
    /\ err = ""
    /\ NoKernel
    /\ NoMetrics
    /\ run = NoRun

NextBuild ==
    \/ BuildFromEntries(entries)
    \/ BuildFromEntries(<<>>)
    \/ Clear

SpecBuild == InitBuild /\ [][NextBuild]_vars

---------------------------------------------------------------------------
(* Properties of the CSR builder *)

Built == pc = "built"

SetMax(S) == CHOOSE m \in S : \A n \in S : n <= m

RowPositions(es, i) == {k \in 0..(Len(es) - 1) : es[k + 1].row = i}

(* C1: for a non-empty (row, col)-sorted entry vector with non-negative   *)
(* indices, the built indexPointers array has length rows+1, every cell   *)
(* of it was written, it is non-decreasing, starts with 0 and ends with   *)
(* nnz, the number of entries.                                            *)
C1_RowStartShape ==
    (Built /\ SortedEntries(entries) /\ NonNegative(entries)) =>
        /\ csr.nnz = Len(entries)
        /\ DOMAIN csr.indexPointers = 0..csr.rows
        /\ \A k \in 0..csr.rows : csr.indexPointers[k] # Uninit
        /\ \A k \in 0..(csr.rows - 1) : csr.indexPointers[k] <= csr.indexPointers[k + 1]
        /\ csr.indexPointers[0] = 0
        /\ csr.indexPointers[csr.rows] = csr.nnz

(* A matrix built from sorted entries with an empty row between two       *)
(* non-empty ones.                                                        *)
C1_Witness ==
    /\ Built /\ SortedEntries(entries) /\ NonNegative(entries)
    /\ csr.rows = 3
    /\ RowPositions(entries, 0) # {}
    /\ RowPositions(entries, 1) = {}
    /\ csr.indexPointers = (0 :> 0 @@ 1 :> 1 @@ 2 :> 1 @@ 3 :> 2)

(* C2: for a non-empty sorted entry vector, rows = max row + 1 and        *)
(* cols = max col + 1; the slots [indexPointers[i], indexPointers[i+1])   *)
(* of row i are exactly the input positions whose entry has row i, slot k *)
(* holds the column and the value of input entry k, columns ascend within *)
(* a row, an empty row has equal pointers, and entries at the same        *)
(* (row, col) are not merged: each input entry keeps its own slot.        *)
C2_RowSlots ==
    (Built /\ SortedEntries(entries) /\ NonNegative(entries)) =>
        /\ csr.rows = SetMax({entries[k].row : k \in 1..Len(entries)}) + 1
        /\ csr.cols = SetMax({entries[k].col : k \in 1..Len(entries)}) + 1
        /\ DOMAIN csr.indices = 0..(Len(entries) - 1)
        /\ DOMAIN csr.data = 0..(Len(entries) - 1)
        /\ \A k \in 0..(Len(entries) - 1) :
              /\ csr.indices[k] = entries[k + 1].col
              /\ csr.data[k] = entries[k + 1].value
        /\ \A i \in 0..(csr.rows - 1) :
              /\ RowPositions(entries, i) =
                    csr.indexPointers[i]..(csr.indexPointers[i + 1] - 1)
              /\ (RowPositions(entries, i) = {}) =>
                    csr.indexPointers[i] = csr.indexPointers[i + 1]
              /\ \A k \in csr.indexPointers[i]..(csr.indexPointers[i + 1] - 2) :
                    csr.indices[k] <= csr.indices[k + 1]

(* A matrix built from a vector that holds two entries at the same        *)
(* position with different values, after an empty row.                    *)
C2_Witness ==
    /\ Built /\ SortedEntries(entries) /\ NonNegative(entries)
    /\ Len(entries) = 3
    /\ entries[1].row = 0
    /\ entries[2].row = 2 /\ entries[3].row = 2
    /\ entries[2].col = entries[3].col
    /\ entries[2].value # entries[3].value
    /\ csr.nnz = 3
    /\ csr.data[1] = entries[2].value /\ csr.data[2] = entries[3].value

---------------------------------------------------------------------------
(* The SpMV kernel: the row loop of SpMV and warmUp *)

MaxThreads == 2
MaxChunk == 2

Durations == {5, 10}

Policies == {"static", "dynamic", "guided"}

InvalidPolicyError == "Invalid scheduling type: use static, dynamic, or guided."

(* The inner loop of row i, from j on: sum += data[j] * x[indices[j]] *)
RECURSIVE InnerLoop(_, _, _, _, _)
InnerLoop(m, xv, j, last, acc) ==
    IF j >= last THEN acc
    ELSE InnerLoop(m, xv, j + 1, last,
             [sum   |-> acc.sum + m.data[j] * xv[m.indices[j]],
              order |-> Append(acc.order, j)])

(* Mutant: the row sum starts from the first product and skips slot       *)
(* indexPointers[i]+1 .. : the loop starts one slot late                  *)
RowAccLate(m, xv, i) ==
    InnerLoop(m, xv, m.indexPointers[i] + 1, m.indexPointers[i + 1],
              [sum |-> 0, order |-> <<>>])

(* double sum = 0.0; for (j = indexPointers[i]; j < indexPointers[i+1]; j++) ... *)
RowAcc(m, xv, i) ==
    InnerLoop(m, xv, m.indexPointers[i], m.indexPointers[i + 1],
              [sum |-> 0, order |-> <<>>])

(* The sequential kernel: rows 0 .. rows-1 in order on one thread *)
RECURSIVE SeqLoop(_, _, _, _)
SeqLoop(m, xv, i, out) ==
    IF i >= m.rows THEN out
    ELSE SeqLoop(m, xv, i + 1, [out EXCEPT ![i] = RowAcc(m, xv, i).sum])

SpMVSequentialResult(m, xv) == SeqLoop(m, xv, 0, NewArray(m.rows))

(* Number of threads that run the loop: without _OPENMP the pragma is     *)
(* ignored and the calling thread runs every iteration.                   *)
TeamSize == IF openmp THEN opts.numThreads ELSE 1

CeilDiv(a, b) == (a + b - 1) \div b

(* schedule(runtime) after omp_set_schedule(schedule, chunksize): the     *)
(* chunk [lo, hi) thread t receives when it asks for work, having         *)
(* received `taken` chunks before; lo >= hi when nothing is left for it.  *)
(* A chunk size below 1 selects the default of the policy; a team of one  *)
(* thread under a static schedule is handed the whole range at once,      *)
(* whatever the chunk size.                                               *)
StaticBlock(n, T, t) ==
    LET q == n \div T
        r == n % T
        lo == IF t < r THEN t * (q + 1) ELSE t * q + r
    IN  [lo |-> lo, hi |-> IF t < r THEN lo + q + 1 ELSE lo + q]

(* Mutant: the parallel region lacks the worksharing construct, so every *)
(* thread runs the whole row range                                       *)
NextChunkAllRows(policy, chunk, n, T, t, taken, next) ==
    IF taken = 0 /\ policy = "static" THEN [lo |-> 0, hi |-> n]
    ELSE IF policy = "static" THEN [lo |-> n, hi |-> n]
    ELSE [lo |-> next, hi |-> Min(next + Max(chunk, 1), n)]

(* Mutant: static blocks of n div T rows, the remainder rows are dropped *)
NextChunkDropTail(policy, chunk, n, T, t, taken, next) ==
    IF policy = "static"
    THEN IF taken = 0 THEN [lo |-> t * (n \div T), hi |-> (t + 1) * (n \div T)]
         ELSE [lo |-> n, hi |-> n]
    ELSE [lo |-> next, hi |-> Min(next + Max(chunk, 1), n)]

NextChunk(policy, chunk, n, T, t, taken, next) ==
    IF policy = "static"
    THEN IF chunk < 1 \/ T = 1
         THEN IF taken = 0 THEN StaticBlock(n, T, t) ELSE [lo |-> n, hi |-> n]
         ELSE LET lo == (t + taken * T) * chunk
              IN  [lo |-> Min(lo, n), hi |-> Min(lo + chunk, n)]
    ELSE IF policy = "dynamic"
    THEN [lo |-> next, hi |-> Min(next + Max(chunk, 1), n)]
    ELSE [lo |-> next,
          hi |-> Min(next + Max(Max(chunk, 1), CeilDiv(n - next, T)), n)]

(* The policy in force: without _OPENMP the loop is a plain for loop *)
LoopPolicy == IF openmp THEN opts.schedulingType ELSE "static"
LoopChunk == IF openmp THEN opts.chunkSize ELSE 0

(* The accesses of row i: slot j of indices and data, and cell            *)
(* indices[j] of x                                                        *)
RowAccesses(m, i) ==
    [k \in 1..(m.indexPointers[i + 1] - m.indexPointers[i]) |->
        LET j == m.indexPointers[i] + k - 1
        IN  [i |-> i, j |-> j, c |-> m.indices[j]]]

(* Access a stays inside the arrays of m and inside xv, which has one     *)
(* cell per column                                                        *)
InBounds(m, xv, a) ==
    /\ 0 <= a.i /\ a.i < m.rows
    /\ 0 <= a.j /\ a.j < m.nnz
    /\ 0 <= a.c /\ a.c < m.cols
    /\ a.c \in DOMAIN xv

(* What the sum of a row may hold after a read outside x, if the read     *)
(* does not kill the process: the word read is whatever lies at that      *)
(* address, so the sum is any value at all, for which Uninit stands       *)
Wild == {Uninit}

(* A thread of the team: its position, the chunk [lo, hi) it holds and    *)
(* the row i it is at (all 0 while it holds none), the number of chunks  *)
(* a static schedule has given it, and its private reduction copies.     *)
(* A thread whose loop has ended is at "reduce" until it has added its    *)
(* copies to the shared counters, then "done": waiting at the barrier.    *)
IdleThread == [pc |-> "idle", lo |-> 0, hi |-> 0, i |-> 0, taken |-> 0,
               bytes |-> 0, flops |-> 0]

(* Entry of SpMV / warmUp up to the fork of the parallel loop *)
EnterLoop(f) ==
    /\ fn' = f
    /\ y' = NewArray(csr.rows)
    /\ IF openmp /\ opts.schedulingType \notin Policies
       THEN /\ err' = InvalidPolicyError
            /\ pc' = "threw"
            /\ UNCHANGED <<wk, nextIter, assigned, nwrites, visited>>
       ELSE /\ err' = ""
            /\ pc' = "loop"
            /\ wk' = [t \in 0..(TeamSize - 1) |-> IdleThread]
            /\ nextIter' = 0
            /\ assigned' = [i \in 0..(csr.rows - 1) |-> 0]
            /\ nwrites' = [i \in 0..(csr.rows - 1) |-> 0]
            /\ visited' = [i \in 0..(csr.rows - 1) |-> <<>>]

(* Thread t asks the runtime for its next chunk of rows *)
Grab(t) ==
    /\ pc = "loop"
    /\ wk[t].pc = "idle"
    /\ LET ch == NextChunk(LoopPolicy, LoopChunk, csr.rows, TeamSize, t,
                           wk[t].taken, nextIter)
       IN  IF ch.lo < ch.hi
           THEN /\ wk' = [wk EXCEPT ![t].pc = "run", ![t].lo = ch.lo, ![t].hi = ch.hi,
                                    ![t].i = ch.lo,
                                    ![t].taken = IF LoopPolicy = "static" THEN @ + 1 ELSE @]
                /\ nextIter' = IF LoopPolicy = "static" THEN nextIter ELSE ch.hi
                /\ assigned' = [i \in DOMAIN assigned |->
                                   IF ch.lo <= i /\ i < ch.hi THEN assigned[i] + 1
                                   ELSE assigned[i]]
           ELSE /\ wk' = [wk EXCEPT ![t].pc = IF fn = "warmUp" /\ openmp THEN "reduce"
                                              ELSE "done"]
                /\ UNCHANGED <<nextIter, assigned>>
    /\ UNCHANGED <<run, csrVars, rmVars, pc, err, x, opts, openmp, fn, y, nwrites, visited,
                   ySeq, duration, warm, warmSeq>>

(* Thread t runs the loop body for its current row i. In warmUp the row   *)
(* is counted: under _OPENMP in the thread's private copies of the        *)
(* reduction, otherwise in bytesMoved and flopsMoved themselves. A read   *)
(* outside x is undefined: the process is killed, or the sum holds any    *)
(* value.                                                                 *)
Row(t) ==
    /\ pc = "loop"
    /\ wk[t].pc = "run"
    /\ LET i == wk[t].i
           acc == RowAccesses(csr, i)
           len == Len(acc)
           safe == \A k \in 1..len : InBounds(csr, x, acc[k])
           sums == IF safe THEN {RowAcc(csr, x, i).sum} ELSE Wild
       IN  \/ /\ ~safe
              /\ pc' = "crashed"
              /\ UNCHANGED <<y, nwrites, visited, wk, warm>>
           \/ /\ \E v \in sums : y' = [y EXCEPT ![i] = v]
              /\ nwrites' = [nwrites EXCEPT ![i] = @ + 1]
              /\ visited' = [visited EXCEPT ![i] = [k \in 1..len |-> acc[k].j]]
              /\ wk' = [wk EXCEPT
                          ![t].i = IF i + 1 < wk[t].hi THEN i + 1 ELSE 0,
                          ![t].lo = IF i + 1 < wk[t].hi THEN @ ELSE 0,
                          ![t].hi = IF i + 1 < wk[t].hi THEN @ ELSE 0,
                          ![t].pc = IF i + 1 < wk[t].hi THEN "run" ELSE "idle",
                          ![t].bytes = IF fn = "warmUp" /\ openmp THEN @ + 20 * len + 8 ELSE @,
                          ![t].flops = IF fn = "warmUp" /\ openmp THEN @ + 2 * len ELSE @]
              /\ warm' = IF fn = "warmUp" /\ ~openmp
                         THEN [warm EXCEPT !.bytesMoved = @ + 20 * len + 8,
                                           !.flopsMoved = @ + 2 * len]
                         ELSE warm
              /\ pc' = pc
    /\ UNCHANGED <<run, csrVars, rmVars, err, x, opts, openmp, fn, nextIter, assigned,
                   ySeq, duration, warmSeq>>

(* Mutant: the thread stores its private copies in the shared counters    *)
(* instead of adding them                                                 *)
ReduceByStore(t) ==
    /\ pc = "loop"
    /\ wk[t].pc = "reduce"
    /\ warm' = [warm EXCEPT !.bytesMoved = wk[t].bytes,
                            !.flopsMoved = wk[t].flops]
    /\ wk' = [wk EXCEPT ![t].pc = "done"]
    /\ UNCHANGED <<run, csrVars, rmVars, pc, err, x, opts, openmp, fn, y, nextIter,
                   assigned, nwrites, visited, ySeq, duration, warmSeq>>

(* reduction(+:bytesMoved, flopsMoved): thread t, its loop ended, adds    *)
(* its private copies to the shared counters under the runtime's lock and *)
(* goes on to the barrier                                                 *)
Reduce(t) ==
    /\ pc = "loop"
    /\ wk[t].pc = "reduce"
    /\ warm' = [warm EXCEPT !.bytesMoved = @ + wk[t].bytes,
                            !.flopsMoved = @ + wk[t].flops]
    /\ wk' = [wk EXCEPT ![t].pc = "done"]
    /\ UNCHANGED <<run, csrVars, rmVars, pc, err, x, opts, openmp, fn, y, nextIter,
                   assigned, nwrites, visited, ySeq, duration, warmSeq>>

(* Mutant: the loop ends as soon as one thread has no work left (nowait) *)
AnyThreadDone(team) == \E t \in DOMAIN team : team[t].pc = "done"

(* The implicit barrier at the end of the parallel for *)
BarrierPassed(team) == \A t \in DOMAIN team : team[t].pc = "done"

(* duration = (end - start) * 1e3: start and end are read from           *)
(* omp_get_wtime only under _OPENMP and are both 0.0 otherwise            *)
Elapsed == IF openmp THEN Durations ELSE {0}

(* SpMV after the loop: takes the end time and returns y *)
ReturnSpMV ==
    /\ pc = "loop"
    /\ fn = "SpMV"
    /\ BarrierPassed(wk)
    /\ duration' \in Elapsed
    /\ pc' = "returned"
    /\ UNCHANGED <<run, csrVars, rmVars, err, x, opts, openmp, fn, loopVars, ySeq, warm, warmSeq>>

(* The sequential program's SpMV, a single-threaded call: returns y and   *)
(* stores the time measured with high_resolution_clock in duration        *)
SpMVSequential ==
    /\ pc = "ready"
    /\ ySeq' = SpMVSequentialResult(csr, x)
    /\ duration' \in Durations
    /\ pc' = "seq_done"
    /\ UNCHANGED <<run, csrVars, rmVars, err, x, opts, openmp, fn, loopVars, warm, warmSeq>>

(* The parallel program's SpMV is entered *)
CallSpMV ==
    /\ pc = "seq_done"
    /\ EnterLoop("SpMV")
    /\ UNCHANGED <<run, csrVars, rmVars, x, opts, openmp, ySeq, duration, warm, warmSeq>>

(* Matrices and vectors the kernels are run on *)
KernelValue(k) == 1 + (k % 2)

SortedPositions ==
    {es \in SeqsUpTo({Entry(r, c, 0) : r \in 0..(MaxRows - 1), c \in 0..(MaxCols - 1)},
                     MaxNnz) :
        /\ es # <<>>
        /\ \A k \in 1..(Len(es) - 1) : EntryLess(es[k], es[k + 1])}

(* Every profile of row lengths, the entries of a row in columns 0, 1, ... *)
WarmEntries ==
    {es \in SortedPositions :
        \A k \in 1..Len(es) :
            es[k].col = Cardinality({h \in 1..(k - 1) : es[h].row = es[k].row})}

(* The matrices the kernels are run on: every placement of one or two     *)
(* entries, and every profile of row lengths                              *)
KernelEntries == {es \in SortedPositions : Len(es) <= 2} \cup WarmEntries

WithValues(es) == [k \in 1..Len(es) |-> [es[k] EXCEPT !.value = KernelValue(k)]]

XVectors(n) == {[c \in 0..(n - 1) |-> 1], [c \in 0..(n - 1) |-> c + 2]}

(* The vector the parallel kernels are run on: a different value per column *)
KernelX(n) == [c \in 0..(n - 1) |-> c + 2]

CallOptions ==
    [schedulingType : Policies \cup {"auto"},
     chunkSize : {0, MaxChunk},
     numThreads : 1..MaxThreads]

InitKernel ==
    /\ file = NoFile
    /\ entries \in {WithValues(es) : es \in KernelEntries}
    /\ csr = BuildCSR(entries)
    /\ x = KernelX(csr.cols)
    /\ opts \in CallOptions
    /\ openmp \in BOOLEAN
    /\ pc = "ready"
    /\ err = ""
    /\ fn = "SpMV"
    /\ y = <<>> /\ wk = <<>> /\ nextIter = 0
    /\ assigned = <<>> /\ nwrites = <<>> /\ visited = <<>>
    /\ ySeq = <<>>
    /\ duration = 0
    /\ warm = NoWarmUp
    /\ warmSeq = NoWarmUp
    /\ NoMetrics
    /\ run = NoRun

NextKernel ==
    \/ SpMVSequential
    \/ CallSpMV
    \/ \E t \in DOMAIN wk : Grab(t)
    \/ \E t \in DOMAIN wk : Row(t)
    \/ ReturnSpMV

SpecKernel == InitKernel /\ [][NextKernel]_vars

---------------------------------------------------------------------------
(* Properties of the kernels *)

Returned == pc = "returned"

RECURSIVE SumOfProducts(_, _, _)
SumOfProducts(m, xv, J) ==
    IF J = {} THEN 0
    ELSE LET j == CHOOSE k \in J : TRUE
         IN  m.data[j] * xv[m.indices[j]] + SumOfProducts(m, xv, J \ {j})

RowSlots(m, i) == m.indexPointers[i]..(m.indexPointers[i + 1] - 1)

Ascending(lo, hi) == [k \in 1..(hi - lo) |-> lo + k - 1]

(* C3: for a built matrix and a vector x of length cols, the sequential   *)
(* kernel and the parallel kernel each return y of length rows with y[i]  *)
(* the sum of data[j] * x[indices[j]] over the slots j of row i; the      *)
(* loop visits the slots in ascending j, starting from 0, and an empty    *)
(* row yields 0.                                                          *)
C3_RowSums ==
    /\ (pc \in {"seq_done", "loop", "returned"}) =>
          /\ DOMAIN ySeq = 0..(csr.rows - 1)
          /\ \A i \in 0..(csr.rows - 1) :
                ySeq[i] = SumOfProducts(csr, x, RowSlots(csr, i))
    /\ Returned =>
          /\ DOMAIN y = 0..(csr.rows - 1)
          /\ \A i \in 0..(csr.rows - 1) :
                /\ y[i] = SumOfProducts(csr, x, RowSlots(csr, i))
                /\ visited[i] =
                      Ascending(csr.indexPointers[i], csr.indexPointers[i + 1])
                /\ (RowSlots(csr, i) = {}) => y[i] = 0

(* The parallel kernel has returned for a matrix with an empty row and a  *)
(* row of two entries.                                                    *)
C3_Witness ==
    /\ Returned
    /\ DOMAIN x = 0..(csr.cols - 1)
    /\ \E i \in 0..(csr.rows - 1) : RowSlots(csr, i) = {} /\ y[i] = 0
    /\ \E i \in 0..(csr.rows - 1) : Len(visited[i]) = 2 /\ y[i] > 0

(* C4: the output of the parallel kernel equals the output of the         *)
(* sequential kernel, for every team size, policy, chunk size and         *)
(* interleaving of the threads.                                           *)
C4_ParallelEqualsSequential == Returned => y = ySeq

(* A guided run on two threads over three rows has returned. *)
C4_Witness ==
    /\ Returned /\ openmp
    /\ opts.schedulingType = "guided" /\ opts.numThreads = 2
    /\ csr.rows = 3
    /\ y = ySeq
    /\ \A i \in 0..2 : nwrites[i] = 1

NoRowShared ==
    \A t, u \in DOMAIN wk :
        (t # u /\ wk[t].pc = "run" /\ wk[u].pc = "run") =>
            (wk[t].hi <= wk[u].lo \/ wk[u].hi <= wk[t].lo)

InputsReadOnly == (pc \in {"loop", "returned"}) => (csr' = csr /\ x' = x)

(* C5: within a parallel kernel call every row is handed to exactly one   *)
(* thread and y[i] is stored exactly once, by the thread that holds row   *)
(* i; no two threads hold the same row; the matrix and x are not written. *)
C5_DisjointWrites ==
    /\ [](pc \in {"loop", "returned"} =>
            /\ \A i \in 0..(csr.rows - 1) :
                  /\ assigned[i] <= 1
                  /\ nwrites[i] <= assigned[i]
            /\ NoRowShared
            /\ Returned =>
                  \A i \in 0..(csr.rows - 1) : assigned[i] = 1 /\ nwrites[i] = 1)
    /\ [][InputsReadOnly]_vars

(* Two threads are inside the loop body at once, on different rows, while *)
(* another row is already stored.                                         *)
C5_Witness ==
    /\ pc = "loop"
    /\ \E t, u \in DOMAIN wk : t # u /\ wk[t].pc = "run" /\ wk[u].pc = "run"
    /\ \E i \in 0..(csr.rows - 1) : nwrites[i] = 1

(* C6: a parallel kernel call returns, and takes its end time, only after *)
(* every thread has finished all its rows: when it has returned no thread *)
(* is left in the loop, no row is left to hand out, and every y[i] holds  *)
(* its final value.                                                       *)
C6_ReturnAfterAllRows ==
    Returned =>
        /\ \A t \in DOMAIN wk : wk[t].pc = "done"
        /\ \A i \in 0..(csr.rows - 1) :
              /\ nwrites[i] >= 1
              /\ y[i] # Uninit
              /\ y[i] = RowAcc(csr, x, i).sum
        /\ duration \in Elapsed

(* A dynamic run on two threads over three rows has returned. *)
C6_Witness ==
    /\ Returned /\ openmp
    /\ opts.schedulingType = "dynamic" /\ opts.numThreads = 2
    /\ csr.rows = 3
    /\ \A t \in DOMAIN wk : wk[t].pc = "done"

---------------------------------------------------------------------------
(* mtx::readMTX *)

(* Mutant: the indices are kept 1-based *)
KeepOneBased(t) == Entry(t[1], t[2], t[3])

(* entries.push_back({row - 1, col - 1, value}) *)
ToZeroBased(t) == Entry(t[1] - 1, t[2] - 1, t[3])

(* Mutant: the vector is returned in file order, the sort left out *)
FileOrder(es) == {es}

(* The orders std::sort may leave a vector in: every arrangement that is  *)
(* sorted by (row, col); entries that compare equal may come in any order *)
SortedArrangements(es) ==
    {arr \in {[k \in 1..Len(es) |-> es[perm[k]]] : perm \in Permutations(1..Len(es))} :
        SortedEntries(arr)}

(* The triplets of the file as entries, in file order *)
ReadTriplets(f) == [k \in 1..Len(f.triplets) |-> ToZeroBased(f.triplets[k])]

(* The path the programs are given, and the name main cuts out of it *)
MatrixPath == "data/matrix.mtx"

MatrixName == "matrix.mtx"

(* Mutant: a file that opens is read whatever it holds, and an empty      *)
(* vector is returned for a file without triplets                         *)
ReadAcceptsEmpty(f, filePath) ==
    IF ~f.exists THEN "Cannot open file: " \o filePath ELSE ""

(* what() of the exception readMTX(filePath) throws when the file at      *)
(* filePath is f, "" when it throws none                                  *)
ReadFailure(f, filePath) ==
    LET dims == f.header
    IN  IF ~f.exists THEN "Cannot open file: " \o filePath
        ELSE IF dims = <<>> THEN "Missing dimension line in " \o filePath
        ELSE IF Len(dims) < 3 THEN "Failed to read matrix dimensions."
        ELSE IF dims[1] <= 0 \/ dims[2] <= 0 \/ dims[3] <= 0
             THEN "Invalid matrix dimensions."
        ELSE IF ReadTriplets(f) = <<>> THEN "No entries read from file: " \o filePath
        ELSE ""

ExampleTriplets == {<<1, 1, 4>>, <<1, 3, 9>>, <<2, 2, 7>>, <<3, 1, 5>>}

RECURSIVE DistinctSeqs(_)
DistinctSeqs(S) ==
    {<<>>} \cup UNION {{<<e>> \o s : s \in DistinctSeqs(S \ {e})} : e \in S}

(* Files that give one position twice, with different values *)
RepeatedTriplets ==
    {<<<<2, 2, 7>>, <<1, 1, 4>>, <<2, 2, 8>>>>, <<<<2, 2, 8>>, <<1, 3, 9>>, <<2, 2, 7>>>>}

(* What the comment loop leaves in `line` when the file ends in a comment *)
(* line without a newline: the getline that fails does not erase it, and  *)
(* no number can be extracted from it                                     *)
CommentLine == <<"%">>

(* Triplets as files give them, index 0 included: readMTX accepts both *)
BoundsTriplets == {<<1, 1, 4>>, <<1, 0, 6>>, <<2, 2, 7>>, <<MaxRows, 1, 5>>}

(* The files of the sequential program. header is what `line` holds after *)
(* the comment loop, as the numbers >> extracts from it: none for an      *)
(* empty line.                                                            *)
PipelineFiles ==
    [exists : BOOLEAN,
     header : {<<>>, CommentLine, <<3, 3>>, <<3, 3, 0>>, <<3, 3, 4>>},
     triplets : DistinctSeqs(ExampleTriplets) \cup RepeatedTriplets]
        \cup [exists : {TRUE},
              header : {<<MaxRows, MaxCols, MaxNnz>>},
              triplets : DistinctSeqs(BoundsTriplets) \ {<<>>}]

---------------------------------------------------------------------------
(* warmUp: the instrumented pass of the parallel and the sequential program *)

(* The sequential warmUp loop from row i on: per slot 20 bytes (data,     *)
(* index, x) and 2 flops, per row 8 bytes (y)                             *)
RECURSIVE SeqWarmLoop(_, _, _, _)
SeqWarmLoop(m, xv, i, acc) ==
    IF i >= m.rows THEN acc
    ELSE LET len == Len(RowAcc(m, xv, i).order)
         IN  SeqWarmLoop(m, xv, i + 1,
                 [acc EXCEPT !.bytesMoved = @ + 8 * len + 4 * len + 8 * len + 8,
                             !.flopsMoved = @ + 2 * len])

(* warmUp of the sequential program: zeroes the counters, runs the loop   *)
(* once, returns nothing                                                  *)
WarmUpSequential ==
    /\ pc \in {"returned", "threw"}
    /\ warmSeq' = SeqWarmLoop(csr, x, 0,
                      [bytesMoved |-> 0, flopsMoved |-> 0,
                       passes |-> warmSeq.passes + 1, ret |-> {}])
    /\ duration' \in Durations
    /\ pc' = "seq_returned"
    /\ UNCHANGED <<run, csrVars, rmVars, err, x, opts, openmp, fn, loopVars, ySeq, warm>>

(* warmUp of the parallel program is entered; the loop is forked *)
CallWarmUp ==
    /\ pc = "ready"
    /\ EnterLoop("warmUp")
    /\ warm' = IF openmp /\ opts.schedulingType \notin Policies THEN warm
               ELSE [warm EXCEPT !.passes = @ + 1]
    /\ UNCHANGED <<run, csrVars, rmVars, x, opts, openmp, ySeq, duration, warmSeq>>

(* warmUp after the barrier: the end time is taken, y is deleted, the     *)
(* function returns (void)                                                *)
ReturnWarmUp ==
    /\ pc = "loop"
    /\ fn = "warmUp"
    /\ BarrierPassed(wk)
    /\ warm' = [warm EXCEPT !.ret = {}]
    /\ y' = <<>>
    /\ duration' \in Elapsed
    /\ pc' = "returned"
    /\ UNCHANGED <<run, csrVars, rmVars, err, x, opts, openmp, fn, wk, nextIter, assigned,
                   nwrites, visited, ySeq, warmSeq>>

InitWarm ==
    /\ file = NoFile
    /\ entries \in {WithValues(es) : es \in WarmEntries}
    /\ csr = BuildCSR(entries)
    /\ x = KernelX(csr.cols)
    /\ opts \in CallOptions
    /\ openmp \in BOOLEAN
    /\ pc = "ready"
    /\ err = ""
    /\ fn = "warmUp"
    /\ y = <<>> /\ wk = <<>> /\ nextIter = 0
    /\ assigned = <<>> /\ nwrites = <<>> /\ visited = <<>>
    /\ ySeq = <<>>
    /\ duration = 0
    /\ warm = NoWarmUp
    /\ warmSeq = NoWarmUp
    /\ NoMetrics
    /\ run = NoRun

NextWarm ==
    \/ CallWarmUp
    \/ \E t \in DOMAIN wk : Grab(t)
    \/ \E t \in DOMAIN wk : Row(t)
    \/ \E t \in DOMAIN wk : Reduce(t)
    \/ ReturnWarmUp
    \/ WarmUpSequential

SpecWarm == InitWarm /\ [][NextWarm]_vars

(* Every thread of the team keeps running, and so does the calling thread *)
FairSpecWarm == SpecWarm /\ WF_vars(NextWarm)

---------------------------------------------------------------------------
(* Properties of the warm-up *)

(* C8 as stated: the warm-up runs between 1 and 20 kernel passes and      *)
(* returns the number of passes it ran.                                   *)
C8_ReturnsPassCount ==
    Returned => (warm.passes \in 1..20 /\ warm.ret = {warm.passes})

(* The durations of the kernel passes a warmUp call has made: it times    *)
(* its one loop over the rows                                             *)
PassDurations(w) == [k \in 1..w.passes |-> duration]

(* The caps a caller may ask for; the cap in force is 20 or the cap asked *)
(* for, whichever is smaller                                              *)
RequestedCaps == 1..25

CapInForce(requestedCap) == Min(20, requestedCap)

(* |d - avg| / avg < 0.03 for avg a third of total, the sum of the three  *)
(* durations before d                                                     *)
WithinThreePercent(d, total) ==
    IF total = 0 THEN d = 0
    ELSE 100 * (IF 3 * d >= total THEN 3 * d - total ELSE total - 3 * d) < 3 * total

(* The stability counter after the n-th duration of ds: 0 while the       *)
(* window of three is being filled                                        *)
RECURSIVE StabilityCounter(_, _)
StabilityCounter(ds, n) ==
    IF n <= 3 THEN 0
    ELSE IF WithinThreePercent(ds[n], ds[n - 1] + ds[n - 2] + ds[n - 3])
         THEN StabilityCounter(ds, n - 1) + 1
         ELSE 0

(* A controller that has measured ds and stops now stops where it must:   *)
(* the counter has just reached 3 or the cap is hit, and neither was so   *)
(* at an earlier iteration                                                *)
StopsWhereItMust(ds, cap) ==
    /\ ds # <<>>
    /\ StabilityCounter(ds, Len(ds)) = 3 \/ Len(ds) = cap
    /\ \A n \in 1..(Len(ds) - 1) : StabilityCounter(ds, n) < 3 /\ n < cap

ConstantDurations(ds) == \A k \in 1..Len(ds) : ds[k] = ds[1]

NeverStable(ds) == \A n \in 1..Len(ds) : StabilityCounter(ds, n) < 3

StopsWhenStableOrAtCap(ds) ==
    \A requestedCap \in RequestedCaps :
        /\ StopsWhereItMust(ds, CapInForce(requestedCap))
        /\ (ConstantDurations(ds) /\ requestedCap >= 6) => Len(ds) = 6
        /\ NeverStable(ds) => Len(ds) = CapInForce(requestedCap)

(* C9: the warm-up stops at the first iteration at which 3 consecutive    *)
(* durations each differ by less than 3% from the average of the 3        *)
(* before them, and otherwise at the cap: with constant durations after   *)
(* exactly 6 passes, with durations that never stabilise after exactly    *)
(* 20, or requestedCap if that is smaller. Stated of the parallel and of  *)
(* the sequential warmUp, for every cap a caller may ask for.             *)
C9_StopsWhenStableOrAtCap ==
    /\ Returned => StopsWhenStableOrAtCap(PassDurations(warm))
    /\ (pc = "seq_returned") => StopsWhenStableOrAtCap(PassDurations(warmSeq))

---------------------------------------------------------------------------
(* ResultsManager: the samples, the counters and computeAllMetrics *)

MaxSamples == 10

(* A quotient of two doubles, kept exact: n / d in lowest terms; a zero    *)
(* divisor gives inf (1/0), -inf (-1/0) or NaN (0/0) as IEEE division does *)
RECURSIVE GCD(_, _)
GCD(a, b) == IF b = 0 THEN a ELSE GCD(b, a % b)

Abs(a) == IF a < 0 THEN -a ELSE a

Ratio(n, d) ==
    IF d = 0 THEN [num |-> IF n > 0 THEN 1 ELSE IF n < 0 THEN -1 ELSE 0, den |-> 0]
    ELSE LET g == GCD(Abs(n), Abs(d))
             sign == IF d < 0 THEN -1 ELSE 1
         IN  [num |-> sign * (n \div g), den |-> sign * (d \div g)]

(* std::sort on a vector<double>: the ascending arrangement *)
RECURSIVE InsertSorted(_, _)
InsertSorted(s, v) ==
    IF s = <<>> THEN <<v>>
    ELSE IF v < Head(s) THEN <<v>> \o s
    ELSE <<Head(s)>> \o InsertSorted(Tail(s), v)

RECURSIVE SortAscending(_)
SortAscending(s) ==
    IF s = <<>> THEN <<>>
    ELSE InsertSorted(SortAscending(SubSeq(s, 1, Len(s) - 1)), s[Len(s)])

(* Mutant: the percentile is the largest sample *)
LastIndex(n) == n - 1

(* size_t idx90 = size_t(ceil(0.9 * n)) - 1; if (idx90 >= n) idx90 = n - 1 *)
(* For every n up to 200000 the double product 0.9 * n rounds so that its  *)
(* ceiling is the integer ceiling of 9n/10.                                *)
Idx90(n) ==
    LET idx == CeilDiv(9 * n, 10) - 1
    IN  IF idx >= n THEN n - 1 ELSE idx

SetInformation ==
    /\ rm' = [rm EXCEPT !.csrMatrix = "csr",
                        !.numThreads = opts.numThreads,
                        !.schedulingType = opts.schedulingType,
                        !.chunkSize = opts.chunkSize,
                        !.matrixName = MatrixName,
                        !.sequential = FALSE]
    /\ pc' = "set"
    /\ hist' = [hist EXCEPT !.calls = 0]
    /\ UNCHANGED <<run, csrVars, err, kernelVars, samplesIn>>

(* setInformation(CSRMatrix*, string), the overload the sequential        *)
(* program calls: the pointer and the name, nothing else                  *)
SetInformationSequential(mtxName) ==
    /\ rm' = [rm EXCEPT !.csrMatrix = "csr", !.matrixName = mtxName]
    /\ pc' = "set"
    /\ hist' = [hist EXCEPT !.calls = 0]
    /\ UNCHANGED <<run, csrVars, err, kernelVars, samplesIn>>

(* The timed loop hands over the next measured duration *)
AddIterationDuration ==
    /\ Len(rm.iterationDurations) < Len(samplesIn)
    /\ rm.iterationDurations = SubSeq(samplesIn, 1, Len(rm.iterationDurations))
    /\ rm' = [rm EXCEPT !.iterationDurations =
                            Append(@, samplesIn[Len(rm.iterationDurations) + 1])]
    /\ pc' = "set"
    /\ hist' = [hist EXCEPT !.calls = 0]
    /\ UNCHANGED <<run, csrVars, err, kernelVars, samplesIn>>

EmptyDurationsError == "Iteration durations vector is empty."

SetIterationDurations(durations) ==
    /\ IF durations = <<>>
       THEN /\ err' = EmptyDurationsError
            /\ pc' = "rm_threw"
            /\ UNCHANGED rm
       ELSE /\ rm' = [rm EXCEPT !.iterationDurations = durations]
            /\ pc' = "set"
            /\ UNCHANGED err
    /\ hist' = [hist EXCEPT !.calls = 0]
    /\ UNCHANGED <<run, csrVars, kernelVars, samplesIn>>

SetRealTimeMetrics(byteMoved, flopsMoved) ==
    /\ rm' = [rm EXCEPT !.bytesMoved = byteMoved, !.flops = flopsMoved]
    /\ pc' = "set"
    /\ hist' = [supplied |-> [bytesMoved |-> byteMoved, flops |-> flopsMoved], calls |-> 0]
    /\ UNCHANGED <<run, csrVars, err, kernelVars, samplesIn>>

InvalidMatrixError == "CSR matrix is empty or invalid"

NoDurationsError == "No iteration durations recorded. Cannot compute 90th percentile."

(* Mutant: the estimate is added to the counters at every call *)
EstimatedAccumulating(r, m) ==
    [r EXCEPT !.flops = @ + 2 * m.nnz,
              !.bytesMoved = @ + (8 * m.nnz + 4 * m.nnz + 4 * (m.rows + 1) + 8 * m.cols)
                               + 8 * m.rows]

(* The estimate of flops and bytesMoved, taken when either counter is 0 *)
Estimated(r, m) ==
    IF r.flops = 0 \/ r.bytesMoved = 0
    THEN [r EXCEPT !.flops = 2 * m.nnz,
                   !.bytesMoved = (8 * m.nnz + 4 * m.nnz + 4 * (m.rows + 1) + 8 * m.cols)
                                  + 8 * m.rows]
    ELSE r

(* duration90 and the three rates; seconds = duration90 / 1000.0 *)
WithMetrics(r) ==
    LET sortedDur == SortAscending(r.iterationDurations)
        idx90 == Idx90(Len(sortedDur))
        d90 == sortedDur[idx90 + 1]
    IN  [r EXCEPT !.duration90 = d90,
                  !.gflops = Ratio(r.flops, d90 * 1000000),
                  !.bandwidthGBps = Ratio(r.bytesMoved, d90 * 1000000),
                  !.arithmeticIntensity = Ratio(r.flops, r.bytesMoved)]

ComputeAllMetrics ==
    /\ IF rm.csrMatrix = "nullptr" \/ csr.rows = 0 \/ csr.cols = 0
       THEN /\ err' = InvalidMatrixError
            /\ pc' = "rm_threw"
            /\ UNCHANGED rm
       ELSE IF rm.iterationDurations = <<>>
       THEN /\ err' = NoDurationsError
            /\ pc' = "rm_threw"
            /\ rm' = Estimated(rm, csr)
       ELSE /\ rm' = WithMetrics(Estimated(rm, csr))
            /\ pc' = "computed"
            /\ UNCHANGED err
    /\ hist' = [hist EXCEPT !.calls = IF pc' = "computed" THEN Min(@ + 1, 2) ELSE 0]
    /\ UNCHANGED <<run, csrVars, kernelVars, samplesIn>>

(* ResultsManager::clear: bytesMoved, arithmeticIntensity and the scenario *)
(* fields are not among the members it resets                              *)
ClearResults ==
    /\ rm' = [rm EXCEPT !.iterationDurations = <<>>,
                        !.errors = <<>>,
                        !.warmupDuration = 0,
                        !.duration90 = 0,
                        !.flops = 0,
                        !.gflops = ZeroRate,
                        !.bandwidthGBps = ZeroRate]
    /\ pc' = "rm_cleared"
    /\ hist' = NoHistory
    /\ UNCHANGED <<run, csrVars, err, kernelVars, samplesIn>>

(* The sample vectors: of length 1, 3 and MaxSamples a rising, a falling  *)
(* and a scattered one (with repeated values when 3 divides the length),   *)
(* and a single sample of 0 ms; addIterationDuration goes through every    *)
(* prefix of each of them                                                  *)
Rising(n) == [k \in 1..n |-> k]
Falling(n) == [k \in 1..n |-> n + 1 - k]
Scattered(n) == [k \in 1..n |-> ((3 * k) % n) + 1]

SampleVectors ==
    UNION {{Rising(n), Falling(n), Scattered(n)} : n \in {1, 3, MaxSamples}} \cup {<<0>>}

(* Counters handed to setRealTimeMetrics: none (0), or a count that      *)
(* differs from the estimate for every matrix of the model                *)
MeasuredBytes == {0, 68}
MeasuredFlops == {0, 5}

(* The matrices the metrics are computed for: MaxNnz entries, the first  *)
(* in row 0 and the last in row MaxRows - 1                               *)
MetricEntries ==
    {es \in WarmEntries :
        Len(es) = MaxNnz /\ es[1].row = 0 /\ es[Len(es)].row = MaxRows - 1}

InitMetrics ==
    /\ file = NoFile
    /\ \/ /\ entries \in {WithValues(es) : es \in MetricEntries}
          /\ csr = BuildCSR(entries)
       \/ /\ entries = <<>>
          /\ csr = EmptyCSR
    /\ pc = "constructed"
    /\ err = ""
    /\ NoKernel
    /\ rm = FreshManager
    /\ samplesIn \in SampleVectors
    /\ hist = NoHistory
    /\ run = NoRun

NextMetrics ==
    \/ SetInformation
    \/ AddIterationDuration
    \/ SetIterationDurations(samplesIn)
    \/ SetIterationDurations(<<>>)
    \/ \E b \in MeasuredBytes, f \in MeasuredFlops : SetRealTimeMetrics(b, f)
    \/ ComputeAllMetrics
    \/ ClearResults

SpecMetrics == InitMetrics /\ [][NextMetrics]_vars

---------------------------------------------------------------------------
(* Properties of the metrics *)

Computed == pc = "computed"

(* The 0-based nearest-rank index for n samples: the least c with          *)
(* c >= 0.9 n, less one, and at most n - 1                                 *)
NearestRank(n) ==
    LET c == CHOOSE c \in 0..n : 10 * c >= 9 * n /\ 10 * (c - 1) < 9 * n
    IN  Min(c - 1, n - 1)

(* v is the element at 0-based index idx of s sorted ascending *)
HasRank(s, v, idx) ==
    /\ \E k \in 1..Len(s) : s[k] = v
    /\ Cardinality({k \in 1..Len(s) : s[k] < v}) <= idx
    /\ Cardinality({k \in 1..Len(s) : s[k] <= v}) >= idx + 1

ComputeKeepsSamples == (pc' = "computed") => rm'.iterationDurations = rm.iterationDurations

ComputeFailsOnlyWithoutInput ==
    (pc' = "rm_threw" /\ err' \in {InvalidMatrixError, NoDurationsError}) =>
        \/ rm.iterationDurations = <<>>
        \/ rm.csrMatrix = "nullptr" \/ csr.rows = 0 \/ csr.cols = 0

(* C10: for every non-empty sample sequence of length n (and a matrix the  *)
(* manager accepts) computeAllMetrics completes and sets duration90 to the *)
(* element at 0-based index min(ceil(0.9 n) - 1, n - 1) of the samples     *)
(* sorted ascending; the stored sample sequence keeps its order; for the   *)
(* samples 1, 2, ..., 10 duration90 is 9.                                  *)
C10_Duration90 ==
    /\ [](Computed =>
            /\ rm.iterationDurations # <<>>
            /\ HasRank(rm.iterationDurations, rm.duration90,
                       NearestRank(Len(rm.iterationDurations))))
    /\ []((Computed /\ rm.iterationDurations = <<1, 2, 3, 4, 5, 6, 7, 8, 9, 10>>) =>
            rm.duration90 = 9)
    /\ [][ComputeKeepsSamples]_vars
    /\ [][ComputeFailsOnlyWithoutInput]_vars

(* The metrics have been computed from ten samples stored in falling      *)
(* order, and from the samples 1 .. 10.                                   *)
C10_Witness ==
    /\ Computed
    /\ Len(rm.iterationDurations) = 10
    /\ \/ rm.iterationDurations = <<1, 2, 3, 4, 5, 6, 7, 8, 9, 10>>
       \/ rm.iterationDurations = <<10, 9, 8, 7, 6, 5, 4, 3, 2, 1>>
    /\ rm.duration90 = 9

(* The stored counters as computeAllMetrics finds them, and the estimates *)
EstimatedFlops == 2 * csr.nnz
EstimatedBytes == 8 * csr.nnz + 4 * csr.nnz + 4 * (csr.rows + 1) + 8 * csr.cols + 8 * csr.rows

FlopsChosenAlone ==
    (pc' = "computed") =>
        rm'.flops = IF rm.flops # 0 THEN rm.flops ELSE EstimatedFlops

BytesChosenAlone ==
    (pc' = "computed") =>
        rm'.bytesMoved = IF rm.bytesMoved # 0 THEN rm.bytesMoved ELSE EstimatedBytes

(* C11: a computeAllMetrics call that completes uses the real-time FLOP   *)
(* count whenever it is nonzero, whatever the byte count is, and the      *)
(* estimate 2 * nnz otherwise.                                            *)
C11_RealTimeFlopsUsed == [][FlopsChosenAlone]_vars

(* C12: a computeAllMetrics call that completes uses the real-time byte   *)
(* count whenever it is nonzero, whatever the FLOP count is, and the      *)
(* estimate 8 nnz + 4 nnz + 4 (rows + 1) + 8 cols + 8 rows otherwise.     *)
C12_RealTimeBytesUsed == [][BytesChosenAlone]_vars

(* The metrics fields of a manager *)
Snapshot(r) ==
    [duration90 |-> r.duration90, flops |-> r.flops, bytesMoved |-> r.bytesMoved,
     gflops |-> r.gflops, bandwidthGBps |-> r.bandwidthGBps,
     arithmeticIntensity |-> r.arithmeticIntensity]

SecondCallChangesNothing ==
    (pc = "computed" /\ pc' = "computed") =>
        /\ Snapshot(rm') = Snapshot(rm)
        /\ rm'.iterationDurations = rm.iterationDurations

(* C13: a computeAllMetrics call that directly follows a completed        *)
(* computeAllMetrics call, on the same samples and matrix, leaves          *)
(* duration90, flops, bytesMoved, gflops, bandwidthGBps and                *)
(* arithmeticIntensity as the first call left them.                        *)
C13_RecomputeIdempotent == [][SecondCallChangesNothing]_vars

(* Two calls in a row have completed, the first of which had to estimate  *)
(* the counters because only the FLOP count had been supplied.            *)
C13_Witness ==
    /\ Computed
    /\ hist.calls = 2
    /\ hist.supplied.flops # 0 /\ hist.supplied.bytesMoved = 0
    /\ rm.flops = 2 * csr.nnz
    /\ Len(rm.iterationDurations) >= 2

---------------------------------------------------------------------------
(* A manager that outlives a change of its matrix: the CSRMatrix it       *)
(* points to is rebuilt from other entries between two uses               *)

ReuseEntries ==
    {WithValues(es) : es \in {<<Entry(0, 0, 0)>>,
                              <<Entry(0, 0, 0), Entry(MaxRows - 1, MaxCols - 1, 0)>>}}

(* csr.buildFromEntries(other entries) on the object the manager points to *)
RebuildMatrix == \E es \in ReuseEntries : BuildFromEntries(es)

InitReuse ==
    /\ file = NoFile
    /\ entries \in ReuseEntries
    /\ csr = BuildCSR(entries)
    /\ pc = "constructed"
    /\ err = ""
    /\ NoKernel
    /\ rm = FreshManager
    /\ samplesIn \in {Rising(2), Rising(3)}
    /\ hist = NoHistory
    /\ run = NoRun

NextReuse ==
    \/ NextMetrics
    \/ RebuildMatrix
    \/ BuildFromEntries(<<>>)

SpecReuse == InitReuse /\ [][NextReuse]_vars

(* What a freshly constructed manager computes from the given samples,    *)
(* matrix and supplied counters                                           *)
FreshSnapshot(samples, m, supplied) ==
    Snapshot(WithMetrics(Estimated(
        [FreshManager EXCEPT !.iterationDurations = samples,
                             !.flops = supplied.flops,
                             !.bytesMoved = supplied.bytesMoved], m)))

(* C14: the snapshot a completed computeAllMetrics call leaves depends    *)
(* only on the current samples, the current matrix's rows, cols and nnz   *)
(* and the counters currently supplied: it is the snapshot a fresh        *)
(* manager computes from the same three, whatever setInformation,         *)
(* setRealTimeMetrics, addIterationDuration, clear and computeAllMetrics  *)
(* calls came before.                                                     *)
C14_SnapshotOfCurrentInputs ==
    Computed => Snapshot(rm) = FreshSnapshot(rm.iterationDurations, csr, hist.supplied)

(* A computeAllMetrics call made with no sample recorded ends in the      *)
(* no-samples error and leaves every metrics field as it was              *)
ComputeWithoutSamplesFails ==
    (ComputeAllMetrics /\ rm.iterationDurations = <<>>) =>
        /\ pc' = "rm_threw"
        /\ err' = "No iteration durations recorded. Cannot compute 90th percentile."
        /\ Snapshot(rm') = Snapshot(rm)

BuildWithoutEntriesFails ==
    BuildFromEntries(<<>>) =>
        /\ pc' = "build_threw"
        /\ err' = "Cannot build CSR: entries vector is empty."
        /\ csr' = csr

(* C15: computeAllMetrics called with no sample recorded throws the       *)
(* no-samples error ("No iteration durations recorded ...") whatever else *)
(* the manager holds, and produces no result: duration90, flops,          *)
(* bytesMoved and the three rates stay as they were; buildFromEntries     *)
(* called with an empty vector throws "Cannot build CSR: entries vector   *)
(* is empty." and builds nothing.                                         *)
C15_EmptyInputsRejected ==
    /\ [][ComputeWithoutSamplesFails]_vars
    /\ [][BuildWithoutEntriesFails]_vars
    /\ [](Computed => rm.iterationDurations # <<>>)
    /\ [](Built => csr.nnz > 0)

---------------------------------------------------------------------------
(* C16: a call of SpMV or warmUp with a scheduling type other than static, *)
(* dynamic or guided throws the invalid-policy error before any row is    *)
(* computed, with and without _OPENMP: no such call enters the row loop   *)
(* or returns, and y holds no computed row.                               *)
C16_InvalidPolicyRejected ==
    (pc \in {"threw", "loop", "returned"} /\ opts.schedulingType \notin Policies) =>
        /\ pc = "threw"
        /\ err = InvalidPolicyError
        /\ \A i \in 0..(csr.rows - 1) : y[i] = Uninit

---------------------------------------------------------------------------
(* main of the parallel program: parseCLI, the run, the catch block *)

(* One element of argv: its text, the prefix rfind recognises, and what   *)
(* substr(3) and stoi make of the rest                                    *)
Arg(text, flag, numeric, num, str) ==
    [text |-> text, flag |-> flag, numeric |-> numeric, num |-> num, str |-> str]

NumArg(flag, n) == Arg(flag \o ToString(n), flag, TRUE, n, ToString(n))

TextArg(flag, v) == Arg(flag \o v, flag, FALSE, 0, v)

(* struct CLIOptions with its default member values *)
DefaultOptions ==
    [filePath |-> "", schedulingType |-> "static", chunkSize |-> 0,
     iterations |-> 1, numThreads |-> 1]

(* The option loop of parseCLI from argv[i] on (argv[3] here is argv[2]   *)
(* of the C array); what is the message of the exception thrown, if any   *)
RECURSIVE ParseOptions(_, _, _)
ParseOptions(argv, i, o) ==
    IF i > Len(argv) THEN [o |-> o, what |-> ""]
    ELSE LET a == argv[i]
             Thrown(msg) == [o |-> o, what |-> msg]
         IN  IF a.flag = "-T="
             THEN IF ~a.numeric THEN Thrown("stoi")
                  ELSE IF a.num <= 0 THEN Thrown("numThreads must be > 0")
                  ELSE ParseOptions(argv, i + 1, [o EXCEPT !.numThreads = a.num])
             ELSE IF a.flag = "-S="
             THEN IF a.str \notin Policies
                  THEN Thrown("Invalid scheduling type. Allowed: static, dynamic, guided")
                  ELSE ParseOptions(argv, i + 1, [o EXCEPT !.schedulingType = a.str])
             ELSE IF a.flag = "-C="
             THEN IF ~a.numeric THEN Thrown("stoi")
                  ELSE IF a.num < 0 THEN Thrown("chunkSize must be >= 0")
                  ELSE ParseOptions(argv, i + 1, [o EXCEPT !.chunkSize = a.num])
             ELSE IF a.flag = "-I="
             THEN IF ~a.numeric THEN Thrown("stoi")
                  ELSE IF a.num <= 0 THEN Thrown("iterations must be > 0")
                  ELSE ParseOptions(argv, i + 1, [o EXCEPT !.iterations = a.num])
             ELSE Thrown("Unknown argument: '" \o a.text \o "'")

ThreadsWarning(requested, maxThreads) ==
    "Requested threads (" \o ToString(requested) \o ") exceeds maximum available ("
        \o ToString(maxThreads) \o "). Using max."

(* Mutant: the warning is recorded but the requested count is kept *)
WarnWithoutCapping(o, omp, maxThreads, errors) ==
    IF omp /\ o.numThreads > maxThreads
    THEN [o |-> o, errors |-> Append(errors, ThreadsWarning(o.numThreads, maxThreads))]
    ELSE [o |-> o, errors |-> errors]

(* The end of parseCLI: under _OPENMP a count above omp_get_max_threads() *)
(* is reported through addError and replaced by the maximum               *)
CapThreads(o, omp, maxThreads, errors) ==
    IF omp /\ o.numThreads > maxThreads
    THEN [o |-> [o EXCEPT !.numThreads = maxThreads],
          errors |-> Append(errors, ThreadsWarning(o.numThreads, maxThreads))]
    ELSE [o |-> o, errors |-> errors]

UsageError(program) ==
    program \o " requires matrix_path [-T=num_threads] [-S=scheduling] [-C=chunkSize] [-I=iterations]"

(* The options before the option loop: the path, and under _OPENMP the    *)
(* thread count of OMP_NUM_THREADS or of the runtime                      *)
FirstOptions(argv, omp, env, maxThreads) ==
    [DefaultOptions EXCEPT
        !.filePath = argv[2].text,
        !.numThreads = IF ~omp THEN @
                       ELSE IF env.set THEN Max(1, env.value) ELSE maxThreads]

(* Mutant: an exception of the option loop is swallowed *)
ParseCLIUnchecked(argv, omp, env, maxThreads, errors) ==
    IF Len(argv) < 2
    THEN [o |-> DefaultOptions, what |-> "Insufficient CLI arguments",
          errors |-> Append(errors, UsageError(argv[1].text))]
    ELSE LET parsed == ParseOptions(argv, 3, FirstOptions(argv, omp, env, maxThreads))
             capped == CapThreads(parsed.o, omp, maxThreads, errors)
         IN  [o |-> capped.o, what |-> "", errors |-> capped.errors]

(* parseCLI: the options returned, the manager's error list afterwards,   *)
(* and the message of the exception thrown ("" when it returns)           *)
ParseCLI(argv, omp, env, maxThreads, errors) ==
    IF Len(argv) < 2
    THEN [o |-> DefaultOptions, what |-> "Insufficient CLI arguments",
          errors |-> Append(errors, UsageError(argv[1].text))]
    ELSE LET parsed == ParseOptions(argv, 3, FirstOptions(argv, omp, env, maxThreads))
             capped == CapThreads(parsed.o, omp, maxThreads, errors)
         IN  IF parsed.what # ""
             THEN [o |-> parsed.o, what |-> parsed.what, errors |-> errors]
             ELSE [o |-> capped.o, what |-> "", errors |-> capped.errors]

(* What a read through the stored CSRMatrix pointer may find once the     *)
(* matrix has been destroyed: the old value, the 0 the destructor stored, *)
(* or anything else                                                       *)
Dangling(v) == {v, 0, Uninit}

(* The documents toJSON may return for manager r whose pointer, when set, *)
(* refers to matrix m, alive or already destroyed                         *)
ToJSON(r, m, alive) ==
    LET dims == IF r.csrMatrix = "nullptr" THEN {[rows |-> 0, cols |-> 0, nnz |-> 0]}
                ELSE IF alive THEN {[rows |-> m.rows, cols |-> m.cols, nnz |-> m.nnz]}
                ELSE [rows : Dangling(m.rows), cols : Dangling(m.cols),
                      nnz : Dangling(m.nnz)]
    IN  {[matrix |-> [name |-> r.matrixName, rows |-> d.rows, cols |-> d.cols,
                      nnz |-> d.nnz],
          scenario |-> [present |-> ~r.sequential,
                        threads |-> r.numThreads,
                        scheduling_type |-> r.schedulingType,
                        chunk_size |-> r.chunkSize],
          statistics90 |-> [duration_ms |-> r.duration90,
                            FLOPs |-> r.flops,
                            GFLOPS |-> r.gflops,
                            Bandwidth_GBps |-> r.bandwidthGBps,
                            Arithmetic_intensity |-> r.arithmeticIntensity],
          warmUp_time_ms |-> r.warmupDuration,
          all_iteration_times_ms |-> r.iterationDurations,
          errors |-> r.errors] : d \in dims}

(* The catch block of main, entered with manager r by an exception whose  *)
(* what() is msg: addError, print toJSON, return 1. The matrix of the try *)
(* block has been destroyed by then.                                      *)
Caught(r, msg, step) ==
    /\ rm' = [r EXCEPT !.errors = Append(@, "Fatal error: " \o msg)]
    /\ \E doc \in ToJSON(rm', csr, FALSE) :
          run' = [run EXCEPT !.out = Append(@, doc), !.exit = 1,
                             !.steps = Append(@, step)]
    /\ err' = msg
    /\ pc' = "exited"

(* CLIOptions opts = parseCLI(argc, argv, resultsManager);                *)
(* omp_set_num_threads(opts.numThreads)                                   *)
MainParseCLI ==
    /\ pc = "main"
    /\ LET res == ParseCLI(run.argv, openmp, run.ompEnv, run.maxThreads, rm.errors)
       IN  IF res.what # ""
           THEN /\ Caught([rm EXCEPT !.errors = res.errors], res.what, "parseCLI")
                /\ UNCHANGED opts
           ELSE /\ opts' = [schedulingType |-> res.o.schedulingType,
                            chunkSize |-> res.o.chunkSize,
                            numThreads |-> res.o.numThreads]
                /\ run' = [run EXCEPT !.filePath = res.o.filePath,
                                      !.iterations = res.o.iterations,
                                      !.steps = Append(@, "parseCLI")]
                /\ rm' = [rm EXCEPT !.errors = res.errors]
                /\ pc' = "parsed"
                /\ UNCHANGED err
    /\ UNCHANGED <<csrVars, x, openmp, fn, loopVars, ySeq, duration, warm, warmSeq,
                   samplesIn, hist>>

(* vector<Entry> entries = readMTX(opts.filePath) *)
MainReadMTX ==
    /\ pc = "parsed"
    /\ IF ReadFailure(file, run.filePath) # ""
       THEN /\ Caught(rm, ReadFailure(file, run.filePath), "readMTX")
            /\ UNCHANGED entries
       ELSE /\ entries' \in SortedArrangements(ReadTriplets(file))
            /\ run' = [run EXCEPT !.steps = Append(@, "readMTX")]
            /\ pc' = "entries_read"
            /\ UNCHANGED <<rm, err>>
    /\ UNCHANGED <<file, csr, kernelVars, samplesIn, hist>>

(* csr.buildFromEntries(entries); setInformation(&csr, ...);              *)
(* generateRandomVector(csr.getCols(), -1000.0, 1000.0)                   *)
MainBuild ==
    /\ pc = "entries_read"
    /\ IF entries = <<>>
       THEN /\ Caught(rm, EmptyInputError, "buildFromEntries")
            /\ UNCHANGED <<csr, x>>
       ELSE /\ csr' = BuildCSR(entries)
            /\ rm' = [rm EXCEPT !.csrMatrix = "csr",
                                !.numThreads = opts.numThreads,
                                !.schedulingType = opts.schedulingType,
                                !.chunkSize = opts.chunkSize,
                                !.matrixName = MatrixName,
                                !.sequential = FALSE]
            /\ x' \in XVectors(csr'.cols)
            /\ run' = [run EXCEPT !.steps = Append(@, "buildFromEntries")]
            /\ pc' = "vector_ready"
            /\ UNCHANGED err
    /\ UNCHANGED <<file, entries, opts, openmp, fn, loopVars, ySeq, duration, warm,
                   warmSeq, samplesIn, hist>>

(* The measured part of main, lines 268-283, with the parallel loops of   *)
(* warmUp and SpMV run thread by thread: main calls warmUp, records its   *)
(* duration and counters, then calls SpMV opts.iterations times and       *)
(* records each duration, then reports                                    *)

(* Mutant: the new duration is put in front of the recorded ones *)
PushFront(durations, d) == <<d>> \o durations

(* iterationDurations.push_back(duration) *)
PushBack(durations, d) == Append(durations, d)

(* main calls warmUp(csr, x, duration, schedulingType, chunkSize, ...) *)
TimedWarmUpCall ==
    /\ pc = "vector_ready"
    /\ EnterLoop("warmUp")
    /\ run' = [run EXCEPT !.steps = Append(@, "call warmUp")]
    /\ UNCHANGED <<csrVars, rmVars, x, opts, openmp, ySeq, duration, warm, warmSeq>>

(* warmUp returns; setWarmupDuration(duration);                           *)
(* setRealTimeMetrics(bytesMoved, flopsMoved)                             *)
TimedWarmUpReturn ==
    /\ pc = "loop"
    /\ fn = "warmUp"
    /\ BarrierPassed(wk)
    /\ warm' = [warm EXCEPT !.passes = @ + 1]
    /\ y' = <<>>
    /\ duration' \in Elapsed
    /\ rm' = [rm EXCEPT !.warmupDuration = duration',
                        !.bytesMoved = warm'.bytesMoved,
                        !.flops = warm'.flopsMoved]
    /\ hist' = [supplied |-> [bytesMoved |-> warm'.bytesMoved, flops |-> warm'.flopsMoved],
                calls |-> 0]
    /\ run' = [run EXCEPT !.steps = Append(@, "return warmUp")]
    /\ pc' = "warmed"
    /\ UNCHANGED <<csrVars, err, x, opts, openmp, fn, wk, nextIter, assigned, nwrites,
                   visited, ySeq, warmSeq, samplesIn>>

(* The timed loop calls SpMV(csr, x, duration, schedulingType, chunkSize) *)
TimedCall ==
    /\ pc = "warmed"
    /\ Len(rm.iterationDurations) < run.iterations
    /\ EnterLoop("SpMV")
    /\ run' = [run EXCEPT !.steps = Append(@, "call SpMV")]
    /\ UNCHANGED <<csrVars, rmVars, x, opts, openmp, ySeq, duration, warm, warmSeq>>

(* SpMV returns; addIterationDuration(duration) *)
TimedReturn ==
    /\ pc = "loop"
    /\ fn = "SpMV"
    /\ BarrierPassed(wk)
    /\ duration' \in Elapsed
    /\ rm' = [rm EXCEPT !.iterationDurations = PushBack(@, duration')]
    /\ run' = [run EXCEPT !.steps = Append(@, "return SpMV")]
    /\ pc' = "warmed"
    /\ UNCHANGED <<csrVars, err, x, opts, openmp, fn, loopVars, ySeq, warm, warmSeq,
                   samplesIn, hist>>

(* After the loop: computeAllMetrics(); cout << toJSON(); return 0 *)
MainReport ==
    /\ pc = "warmed"
    /\ Len(rm.iterationDurations) >= run.iterations
    /\ IF rm.csrMatrix = "nullptr" \/ csr.rows = 0 \/ csr.cols = 0
       THEN /\ Caught(rm, InvalidMatrixError, "computeAllMetrics")
            /\ UNCHANGED hist
       ELSE IF rm.iterationDurations = <<>>
       THEN /\ Caught(Estimated(rm, csr), NoDurationsError, "computeAllMetrics")
            /\ UNCHANGED hist
       ELSE /\ rm' = WithMetrics(Estimated(rm, csr))
            /\ \E doc \in ToJSON(rm', csr, TRUE) :
                  run' = [run EXCEPT !.out = Append(@, doc), !.exit = 0,
                                     !.steps = Append(@, "computeAllMetrics")]
            /\ hist' = [hist EXCEPT !.calls = 1]
            /\ pc' = "exited"
            /\ UNCHANGED err
    /\ UNCHANGED <<csrVars, kernelVars, samplesIn>>

(* The command lines: the program alone, or the program, the path and up  *)
(* to two options                                                         *)
OptionArgs ==
    {NumArg("-T=", n) : n \in {0, 1, MaxThreads + 1}}
        \cup {TextArg("-S=", v) : v \in {"dynamic", "auto"}}
        \cup {NumArg("-C=", n) : n \in {-1, MaxChunk}}
        \cup {NumArg("-I=", n) : n \in {0, 2}}
        \cup {TextArg("-I=", "two"), TextArg("--verbose", "")}

CommandLines ==
    {<<TextArg("", "spmv")>>}
        \cup {<<TextArg("", "spmv"), TextArg("", MatrixPath)>> \o os :
                 os \in SeqsUpTo(OptionArgs, 2)}

(* A file whose only triplet has row and column 0: readMTX accepts it and *)
(* returns the entry (-1, -1), from which buildFromEntries derives        *)
(* rows = 0 and cols = 0                                                  *)
ZeroIndexFile == [exists |-> TRUE, header |-> <<1, 1, 1>>, triplets |-> <<<<0, 0, 3>>>>]

(* A file with a triplet of column 0 in a row that also holds an entry of *)
(* the last column: readMTX returns the entry (0, -1) with it, the matrix *)
(* has MaxCols columns, and the row loop reads x[-1]                      *)
OutsideFile ==
    [exists |-> TRUE, header |-> <<MaxRows, MaxCols, 2>>,
     triplets |-> <<<<1, 0, 6>>, <<1, MaxCols, 5>>>>]

(* The files at the path: none, an empty one, one whose dimension line    *)
(* declares no nonzero, one with no triplet line, one with a zero index,  *)
(* one with a column index outside x, one with two entries                *)
MainFiles ==
    {NoFile, ZeroIndexFile, OutsideFile,
     [exists |-> TRUE, header |-> <<>>, triplets |-> <<>>],
     [exists |-> TRUE, header |-> <<MaxRows, MaxCols, 0>>, triplets |-> <<>>],
     [exists |-> TRUE, header |-> <<MaxRows, MaxCols, 2>>, triplets |-> <<>>],
     [exists |-> TRUE, header |-> <<MaxRows, MaxCols, 2>>,
      triplets |-> <<<<MaxRows, MaxCols, 7>>, <<1, 1, 4>>>>]}

(* OMP_NUM_THREADS is unset, or holds the value the runtime then reports  *)
(* as its maximum                                                         *)
InitMain ==
    /\ file \in MainFiles
    /\ entries = <<>>
    /\ csr = EmptyCSR
    /\ pc = "main"
    /\ err = ""
    /\ x = <<>>
    /\ opts = [schedulingType |-> "static", chunkSize |-> 0, numThreads |-> 1]
    /\ openmp \in BOOLEAN
    /\ fn = "SpMV"
    /\ y = <<>> /\ wk = <<>> /\ nextIter = 0
    /\ assigned = <<>> /\ nwrites = <<>> /\ visited = <<>>
    /\ ySeq = <<>>
    /\ duration = 0
    /\ warm = NoWarmUp
    /\ warmSeq = NoWarmUp
    /\ NoMetrics
    /\ \E cmd \in CommandLines, mt \in 1..MaxThreads, set \in BOOLEAN :
          run = [NoRun EXCEPT !.argv = cmd, !.maxThreads = mt,
                              !.ompEnv = [set |-> set, value |-> IF set THEN mt ELSE 0]]

NextMain ==
    \/ MainParseCLI
    \/ MainReadMTX
    \/ MainBuild
    \/ TimedWarmUpCall
    \/ \E t \in DOMAIN wk : Grab(t)
    \/ \E t \in DOMAIN wk : Row(t)
    \/ \E t \in DOMAIN wk : Reduce(t)
    \/ TimedWarmUpReturn
    \/ TimedCall
    \/ TimedReturn
    \/ MainReport

SpecMain == InitMain /\ [][NextMain]_vars

---------------------------------------------------------------------------
(* main of the sequential program: its own parseCLI, warmUp and SpMV;     *)
(* readMTX, the report and the catch block are as in the parallel one     *)

SeqUsageError(program) == program \o " requires matrix_path [-I=iterations]"

(* The option loop of the sequential parseCLI from argv[i] on: -I= is its *)
(* only option, anything else is recorded through addError and thrown     *)
RECURSIVE ParseOptionsSequential(_, _, _, _)
ParseOptionsSequential(argv, i, o, errors) ==
    IF i > Len(argv) THEN [o |-> o, what |-> "", errors |-> errors]
    ELSE LET a == argv[i]
         IN  IF a.flag = "-I="
             THEN IF ~a.numeric THEN [o |-> o, what |-> "stoi", errors |-> errors]
                  ELSE IF a.num <= 0
                  THEN [o |-> o, what |-> "Iterations must be > 0", errors |-> errors]
                  ELSE ParseOptionsSequential(argv, i + 1,
                                              [o EXCEPT !.iterations = a.num], errors)
             ELSE [o |-> o, what |-> "Unknown argument",
                   errors |-> Append(errors, "Unknown argument: '" \o a.text \o "'")]

(* parseCLI of the sequential program: the options returned, the          *)
(* manager's error list afterwards, the message of the exception thrown   *)
ParseCLISequential(argv, errors) ==
    IF Len(argv) < 2
    THEN [o |-> DefaultOptions, what |-> "Insufficient CLI arguments",
          errors |-> Append(errors, SeqUsageError(argv[1].text))]
    ELSE ParseOptionsSequential(argv, 3, [DefaultOptions EXCEPT !.filePath = argv[2].text],
                                errors)

(* CLIOptions opts = parseCLI(argc, argv, resultsManager) *)
SeqMainParseCLI ==
    /\ pc = "main"
    /\ LET res == ParseCLISequential(run.argv, rm.errors)
       IN  IF res.what # ""
           THEN Caught([rm EXCEPT !.errors = res.errors], res.what, "parseCLI")
           ELSE /\ run' = [run EXCEPT !.filePath = res.o.filePath,
                                      !.iterations = res.o.iterations,
                                      !.steps = Append(@, "parseCLI")]
                /\ pc' = "parsed"
                /\ UNCHANGED <<rm, err>>
    /\ UNCHANGED <<csrVars, kernelVars, samplesIn, hist>>

(* csr.buildFromEntries(entries); setInformation(&csr, matrixName);       *)
(* generateRandomVector(csr.getCols(), -1000.0, 1000.0)                   *)
SeqMainBuild ==
    /\ pc = "entries_read"
    /\ IF entries = <<>>
       THEN /\ Caught(rm, EmptyInputError, "buildFromEntries")
            /\ UNCHANGED <<csr, x>>
       ELSE /\ csr' = BuildCSR(entries)
            /\ rm' = [rm EXCEPT !.csrMatrix = "csr", !.matrixName = MatrixName]
            /\ x' \in XVectors(csr'.cols)
            /\ run' = [run EXCEPT !.steps = Append(@, "buildFromEntries")]
            /\ pc' = "vector_ready"
            /\ UNCHANGED err
    /\ UNCHANGED <<file, entries, opts, openmp, fn, loopVars, ySeq, duration, warm,
                   warmSeq, samplesIn, hist>>

(* Entry of the sequential SpMV / warmUp up to the row loop:              *)
(* y = new double[rows]                                                   *)
SeqEnter(f) ==
    /\ fn' = f
    /\ y' = NewArray(csr.rows)
    /\ nextIter' = 0
    /\ visited' = <<>>
    /\ pc' = "seq_loop"

(* main calls warmUp(csr, x, duration, bytesMoved, flopsMoved), which     *)
(* zeroes both counters                                                   *)
SeqWarmUpCall ==
    /\ pc = "vector_ready"
    /\ SeqEnter("warmUp")
    /\ warmSeq' = [bytesMoved |-> 0, flopsMoved |-> 0,
                   passes |-> warmSeq.passes + 1, ret |-> {}]
    /\ run' = [run EXCEPT !.steps = Append(@, "call warmUp")]
    /\ UNCHANGED <<csrVars, rmVars, err, x, opts, openmp, wk, assigned, nwrites, ySeq,
                   duration, warm>>

(* One turn of for (int i = 0; i < csr.getRows(); i++) in the sequential  *)
(* SpMV or warmUp: the inner loop of row i and y[i] = sum; warmUp counts  *)
(* the row. A read outside x is undefined: the process is killed, or the  *)
(* sum holds any value.                                                   *)
SeqRow ==
    /\ pc = "seq_loop"
    /\ nextIter < csr.rows
    /\ LET i == nextIter
           acc == RowAccesses(csr, i)
           len == Len(acc)
           safe == \A k \in 1..len : InBounds(csr, x, acc[k])
       IN  /\ visited' = visited \o acc
           /\ warmSeq' = IF fn = "warmUp"
                         THEN [warmSeq EXCEPT !.bytesMoved = @ + 8 * len + 4 * len + 8 * len + 8,
                                              !.flopsMoved = @ + 2 * len]
                         ELSE warmSeq
           /\ IF safe
              THEN /\ y' = [y EXCEPT ![i] = RowAcc(csr, x, i).sum]
                   /\ nextIter' = i + 1
                   /\ pc' = pc
              ELSE \/ /\ pc' = "crashed"
                      /\ UNCHANGED <<y, nextIter>>
                   \/ /\ \E v \in Wild : y' = [y EXCEPT ![i] = v]
                      /\ nextIter' = i + 1
                      /\ pc' = pc
    /\ UNCHANGED <<run, csrVars, rmVars, err, x, opts, openmp, fn, wk, assigned, nwrites,
                   ySeq, duration, warm>>

(* warmUp returns: the time is stored in duration, y is deleted;          *)
(* setWarmupDuration(duration); setRealTimeMetrics(bytesMoved, flopsMoved) *)
SeqWarmUpReturn ==
    /\ pc = "seq_loop"
    /\ fn = "warmUp"
    /\ nextIter >= csr.rows
    /\ y' = <<>>
    /\ duration' \in Durations
    /\ rm' = [rm EXCEPT !.warmupDuration = duration',
                        !.bytesMoved = warmSeq.bytesMoved,
                        !.flops = warmSeq.flopsMoved]
    /\ hist' = [supplied |-> [bytesMoved |-> warmSeq.bytesMoved,
                              flops |-> warmSeq.flopsMoved],
                calls |-> 0]
    /\ run' = [run EXCEPT !.steps = Append(@, "return warmUp")]
    /\ pc' = "warmed"
    /\ UNCHANGED <<csrVars, err, x, opts, openmp, fn, wk, nextIter, assigned, nwrites,
                   visited, ySeq, warm, warmSeq, samplesIn>>

(* The timed loop calls SpMV(csr, x, duration) *)
SeqSpMVCall ==
    /\ pc = "warmed"
    /\ Len(rm.iterationDurations) < run.iterations
    /\ SeqEnter("SpMV")
    /\ run' = [run EXCEPT !.steps = Append(@, "call SpMV")]
    /\ UNCHANGED <<csrVars, rmVars, err, x, opts, openmp, wk, assigned, nwrites, ySeq,
                   duration, warm, warmSeq>>

(* SpMV returns y and the time in duration; outputVector.reset(y);        *)
(* addIterationDuration(duration)                                         *)
SeqSpMVReturn ==
    /\ pc = "seq_loop"
    /\ fn = "SpMV"
    /\ nextIter >= csr.rows
    /\ ySeq' = y
    /\ duration' \in Durations
    /\ rm' = [rm EXCEPT !.iterationDurations = PushBack(@, duration')]
    /\ run' = [run EXCEPT !.steps = Append(@, "return SpMV")]
    /\ pc' = "warmed"
    /\ UNCHANGED <<csrVars, err, x, opts, openmp, fn, loopVars, warm, warmSeq,
                   samplesIn, hist>>

(* The command lines of the sequential program *)
SeqCommandLines ==
    {<<TextArg("", "spmv")>>, <<TextArg("", "spmv"), TextArg("", MatrixPath)>>}
        \cup {<<TextArg("", "spmv"), TextArg("", MatrixPath), a>> :
                 a \in {NumArg("-I=", 0), NumArg("-I=", 2), TextArg("-I=", "two"),
                        NumArg("-T=", 1)}}

InitPipeline ==
    /\ file \in PipelineFiles
    /\ entries = <<>>
    /\ csr = EmptyCSR
    /\ pc = "main"
    /\ err = ""
    /\ NoKernel
    /\ NoMetrics
    /\ \E cmd \in SeqCommandLines : run = [NoRun EXCEPT !.argv = cmd]

NextPipeline ==
    \/ SeqMainParseCLI
    \/ MainReadMTX
    \/ SeqMainBuild
    \/ SeqWarmUpCall
    \/ SeqRow
    \/ SeqWarmUpReturn
    \/ SeqSpMVCall
    \/ SeqSpMVReturn
    \/ MainReport

SpecPipeline == InitPipeline /\ [][NextPipeline]_vars

---------------------------------------------------------------------------
(* Properties of the sequential program *)

(* readMTX has returned its vector; buildFromEntries has built from it *)
ReaderReturned ==
    \/ pc \in {"entries_read", "vector_ready", "seq_loop", "warmed", "crashed"}
    \/ pc = "exited" /\ entries # <<>>

MatrixBuilt ==
    \/ pc \in {"vector_ready", "seq_loop", "warmed", "crashed"}
    \/ pc = "exited" /\ entries # <<>>

ExampleFile ==
    [exists |-> TRUE, header |-> <<3, 3, 4>>,
     triplets |-> <<<<1, 1, 4>>, <<1, 3, 9>>, <<2, 2, 7>>, <<3, 1, 5>>>>]

(* C7: the file with dimension line 3 3 4 and triplets (1,1,4) (1,3,9)    *)
(* (2,2,7) (3,1,5) is read as the entries (0,0,4) (0,2,9) (1,1,7)         *)
(* (2,0,5), builds indexPointers [0,2,3,4], indices [0,2,1,0], data       *)
(* [4,9,7,5], and the kernel applied to x = [1,1,1] gives y = [13,7,5].   *)
C7_EndToEndExample ==
    (file = ExampleFile) =>
        /\ ReaderReturned =>
              entries = <<Entry(0, 0, 4), Entry(0, 2, 9), Entry(1, 1, 7), Entry(2, 0, 5)>>
        /\ MatrixBuilt =>
              /\ csr.indexPointers = (0 :> 0 @@ 1 :> 2 @@ 2 :> 3 @@ 3 :> 4)
              /\ csr.indices = (0 :> 0 @@ 1 :> 2 @@ 2 :> 1 @@ 3 :> 0)
              /\ csr.data = (0 :> 4 @@ 1 :> 9 @@ 2 :> 7 @@ 3 :> 5)
              /\ csr.rows = 3 /\ csr.cols = 3 /\ csr.nnz = 4
        /\ (ySeq # <<>> /\ x = (0 :> 1 @@ 1 :> 1 @@ 2 :> 1)) =>
              ySeq = (0 :> 13 @@ 1 :> 7 @@ 2 :> 5)
        /\ (pc = "exited" /\ run.steps # <<"parseCLI">>) => run.exit = 0

(* The example file has gone through the reader, the builder and the      *)
(* kernel with x = [1,1,1].                                               *)
C7_Witness ==
    /\ file = ExampleFile
    /\ pc = "exited" /\ run.exit = 0
    /\ x = (0 :> 1 @@ 1 :> 1 @@ 2 :> 1)
    /\ ySeq = (0 :> 13 @@ 1 :> 7 @@ 2 :> 5)

---------------------------------------------------------------------------
(* Properties of main *)

Exited == pc = "exited"

(* The warnings parseCLI can record *)
Warnings ==
    {ThreadsWarning(n, m) : n \in 1..(MaxThreads + 1), m \in 1..MaxThreads}

(* The options as the command line asks for them, before the cap *)
Requested ==
    ParseOptions(run.argv, 3, FirstOptions(run.argv, openmp, run.ompEnv, run.maxThreads))

(* An OpenMP build is asked, by an otherwise valid command line, for more *)
(* threads than omp_get_max_threads() reports                             *)
TooManyThreads ==
    /\ openmp
    /\ Len(run.argv) >= 2
    /\ Requested.what = ""
    /\ Requested.o.numThreads > run.maxThreads

(* The steps of a run with n timed iterations that nothing aborts *)
FullRun(n) ==
    <<"parseCLI", "readMTX", "buildFromEntries", "call warmUp", "return warmUp">>
        \o [k \in 1..(2 * n) |-> IF k % 2 = 1 THEN "call SpMV" ELSE "return SpMV"]
        \o <<"computeAllMetrics">>

(* C17: in the OpenMP build, a command line asking for more threads than  *)
(* omp_get_max_threads() is not fatal: parseCLI returns with numThreads   *)
(* set to exactly the maximum and exactly one warning appended; on a      *)
(* usable matrix file the run then goes through warm-up, every timed      *)
(* iteration and the metrics, prints one record that carries the warning  *)
(* alone, and exits with status 0; a run that does abort aborts for the   *)
(* reader's error, or for the empty matrix of a file with a zero index,   *)
(* and that error follows the warning.  (A usable file is one readMTX     *)
(* accepts and whose indices are all at least 1; what a column index 0    *)
(* does to the row loop is the subject of C29.)                           *)
C17_ThreadsCapped ==
    (TooManyThreads /\ pc # "main") =>
        LET warning == ThreadsWarning(Requested.o.numThreads, run.maxThreads)
            unreadable == ReadFailure(file, MatrixPath)
            usable == unreadable = "" /\ file \notin {ZeroIndexFile, OutsideFile}
        IN  /\ opts.numThreads = run.maxThreads
            /\ rm.errors # <<>> /\ rm.errors[1] = warning
            /\ Cardinality({k \in 1..Len(rm.errors) : rm.errors[k] = warning}) = 1
            /\ ~Exited => rm.errors = <<warning>>
            /\ (~Exited /\ file # OutsideFile) => ENABLED NextMain
            /\ (Exited /\ usable) =>
                  /\ run.exit = 0
                  /\ run.steps = FullRun(Requested.o.iterations)
                  /\ Len(run.out) = 1
                  /\ run.out[1].errors = <<warning>>
                  /\ run.out[1].scenario.threads = run.maxThreads
                  /\ Len(run.out[1].all_iteration_times_ms) = Requested.o.iterations
            /\ (Exited /\ ~usable /\ file # OutsideFile) =>
                  rm.errors = <<warning, "Fatal error: " \o
                                   (IF unreadable # "" THEN unreadable
                                    ELSE "CSR matrix is empty or invalid")>>

(* A run asked for one thread more than the maximum, and for two timed    *)
(* iterations, has exited with status 0.                                  *)
C17_Witness ==
    /\ Exited /\ openmp
    /\ run.maxThreads = MaxThreads
    /\ \E k \in 3..Len(run.argv) : run.argv[k] = NumArg("-T=", MaxThreads + 1)
    /\ run.exit = 0
    /\ opts.numThreads = MaxThreads
    /\ rm.errors = <<ThreadsWarning(MaxThreads + 1, MaxThreads)>>
    /\ Len(rm.iterationDurations) = 2
    /\ rm.duration90 > 0

---------------------------------------------------------------------------
(* Until it exits a run has printed nothing; once it has exited it has    *)
(* printed one record and has status 0 or 1                               *)
OneRecord ==
    IF Exited THEN Len(run.out) = 1 /\ run.exit \in {0, 1}
    ELSE run.out = <<>> /\ run.exit = -1

(* The step in which main returns: status 0 exactly when nothing was      *)
(* thrown; otherwise the record's error list is the list as it stood,     *)
(* warnings included, followed by the fatal error                         *)
ExitStep ==
    (pc # "exited" /\ pc' = "exited") =>
        /\ run'.exit = 0 <=> err' = ""
        /\ run'.out = <<run'.out[1]>>
        /\ run'.out[1].errors = rm'.errors
        /\ SubSeq(rm'.errors, 1, Len(rm.errors)) = rm.errors
        /\ IF err' = ""
           THEN /\ rm'.errors = rm.errors
                /\ \A k \in 1..Len(rm.errors) : rm.errors[k] \in Warnings
           ELSE /\ run'.exit = 1
                /\ rm'.errors # <<>>
                /\ rm'.errors[Len(rm'.errors)] = "Fatal error: " \o err'
                /\ Len(rm'.errors) <= Len(rm.errors) + 2

NothingAfterExit == Exited => UNCHANGED vars

(* C18: every run prints exactly one record and then exits; the status is *)
(* 0 exactly when no exception was thrown, and when one was (by parseCLI, *)
(* readMTX, buildFromEntries, the kernel or computeAllMetrics) the record *)
(* lists it as "Fatal error: ..." after the warnings recorded earlier,    *)
(* and the status is 1.                                                   *)
C18_OneRecordThenExit ==
    /\ [](OneRecord)
    /\ [][ExitStep]_vars
    /\ [][NothingAfterExit]_vars
    /\ [](~Exited => ENABLED NextMain)

---------------------------------------------------------------------------
(* An option parseCLI must refuse: an unknown flag, a thread or iteration *)
(* count that is not a positive number, a chunk size that is not a        *)
(* number >= 0, a policy name other than static, dynamic, guided          *)
InvalidOption(a) ==
    \/ a.flag \notin {"-T=", "-S=", "-C=", "-I="}
    \/ a.flag \in {"-T=", "-I="} /\ (~a.numeric \/ a.num <= 0)
    \/ a.flag = "-C=" /\ (~a.numeric \/ a.num < 0)
    \/ a.flag = "-S=" /\ a.str \notin {"static", "dynamic", "guided"}

InvalidConfiguration ==
    \/ Len(run.argv) < 2
    \/ \E k \in 3..Len(run.argv) : InvalidOption(run.argv[k])

(* C19: a run whose command line is invalid (no path, an unknown flag, a  *)
(* non-positive thread or iteration count, a negative chunk size, an      *)
(* unknown policy name) ends in parseCLI: it takes no other step, the     *)
(* file is never read, no matrix is built, no vector generated, no kernel *)
(* run, and it exits with status 1 and the fatal error in its record.     *)
C19_InvalidConfigurationAbortsFirst ==
    (InvalidConfiguration /\ pc # "main") =>
        /\ Exited
        /\ run.steps = <<"parseCLI">>
        /\ entries = <<>> /\ csr = EmptyCSR
        /\ x = <<>> /\ y = <<>>
        /\ warm = NoWarmUp /\ rm.iterationDurations = <<>>
        /\ rm.csrMatrix = "nullptr"
        /\ run.exit = 1
        /\ run.out[1].errors[Len(run.out[1].errors)] = "Fatal error: " \o err

(* A run given an unknown flag and a file it could have read has exited   *)
(* from parseCLI.                                                         *)
C19_Witness ==
    /\ Exited
    /\ err = "Unknown argument: '--verbose'"
    /\ ReadFailure(file, MatrixPath) = ""
    /\ run.steps = <<"parseCLI">>
    /\ entries = <<>>
    /\ run.exit = 1

---------------------------------------------------------------------------
(* A file that opens and is empty, or whose dimension line declares zero  *)
(* nonzeros                                                               *)
EmptyMatrixFile ==
    /\ file.exists
    /\ file.triplets = <<>>
    /\ file.header = <<>> \/ (Len(file.header) = 3 /\ file.header[3] = 0)

(* C20, as stated: for an empty file or a header declaring zero nonzeros  *)
(* the reader hands an empty vector to the builder, buildFromEntries      *)
(* throws "Cannot build CSR: entries vector is empty.", and the run ends  *)
(* with that error, not with an error of the reader.                      *)
C20_BuilderRejectsEmptyFile ==
    (EmptyMatrixFile /\ ~InvalidConfiguration /\ Exited) =>
        /\ run.steps = <<"parseCLI", "readMTX", "buildFromEntries">>
        /\ err = "Cannot build CSR: entries vector is empty."
        /\ run.out[1].errors[Len(run.out[1].errors)] =
              "Fatal error: Cannot build CSR: entries vector is empty."

(* C20, amended: for an empty file readMTX itself throws "Missing         *)
(* dimension line in <path>", for a header declaring zero nonzeros it     *)
(* throws "Invalid matrix dimensions."; nothing is handed to the builder, *)
(* and the run ends with the reader's error last in its record and status *)
(* 1. No run ends with the builder's empty-vector error, since readMTX    *)
(* never returns an empty vector.                                         *)
C20_ReaderRejectsEmptyFile ==
    /\ (EmptyMatrixFile /\ ~InvalidConfiguration /\ Exited) =>
          /\ run.steps = <<"parseCLI", "readMTX">>
          /\ err = IF file.header = <<>>
                   THEN "Missing dimension line in data/matrix.mtx"
                   ELSE "Invalid matrix dimensions."
          /\ entries = <<>> /\ csr = EmptyCSR
          /\ run.exit = 1
          /\ run.out[1].errors[Len(run.out[1].errors)] = "Fatal error: " \o err
    /\ err # "Cannot build CSR: entries vector is empty."
    /\ pc = "entries_read" => entries # <<>>

(* A run on a file whose dimension line declares zero nonzeros has ended  *)
(* in the reader.                                                         *)
C20_Witness ==
    /\ Exited
    /\ file.exists /\ Len(file.header) = 3 /\ file.header[3] = 0
    /\ err = "Invalid matrix dimensions."
    /\ run.steps = <<"parseCLI", "readMTX">>
    /\ run.exit = 1

---------------------------------------------------------------------------
(* Properties of the reader *)

(* es holds the triplets ts, each exactly once, with row and column       *)
(* lowered by 1 and the value as in the file                              *)
PermutationOfTriplets(es, ts) ==
    /\ Len(es) = Len(ts)
    /\ \E p \in Permutations(1..Len(ts)) :
          \A k \in 1..Len(ts) :
              /\ es[k].row = ts[p[k]][1] - 1
              /\ es[k].col = ts[p[k]][2] - 1
              /\ es[k].value = ts[p[k]][3]

AscendingByRowThenColumn(es) ==
    \A k \in 1..(Len(es) - 1) :
        \/ es[k].row < es[k + 1].row
        \/ es[k].row = es[k + 1].row /\ es[k].col <= es[k + 1].col

(* C21: for every file readMTX accepts, the vector it returns holds the   *)
(* file's triplets, each once, with row and column lowered by 1 and the   *)
(* value unchanged, in ascending order of row and then column, whatever   *)
(* the order of the triplets in the file.                                 *)
C21_ReaderSortsTriplets ==
    ReaderReturned =>
        /\ PermutationOfTriplets(entries, file.triplets)
        /\ AscendingByRowThenColumn(entries)

(* A file that lists its triplets out of order, one position twice, has   *)
(* been read.                                                             *)
C21_Witness ==
    /\ pc = "entries_read"
    /\ file.triplets = <<<<2, 2, 8>>, <<1, 3, 9>>, <<2, 2, 7>>>>
    /\ entries = <<Entry(0, 2, 9), Entry(1, 1, 7), Entry(1, 1, 8)>>

---------------------------------------------------------------------------
(* C22: every entry readMTX hands to buildFromEntries has row >= 0 and    *)
(* col >= 0, and so every column index stored in the built matrix lies in *)
(* [0, cols) and every entry's row in [0, rows), for every file the       *)
(* reader accepts.                                                        *)
C22_EntriesNonNegative ==
    /\ (pc = "entries_read") =>
          \A k \in 1..Len(entries) : entries[k].row >= 0 /\ entries[k].col >= 0
    /\ (pc \in {"vector_ready", "warmed"}) =>
          /\ \A k \in 1..Len(entries) : 0 <= entries[k].row /\ entries[k].row < csr.rows
          /\ \A j \in 0..(csr.nnz - 1) : 0 <= csr.indices[j] /\ csr.indices[j] < csr.cols

---------------------------------------------------------------------------
(* The runs measured: a matrix of MaxRows rows, every accepted policy,    *)
(* chunk size and team size, one or two timed iterations                  *)
InitTimed ==
    /\ file = NoFile
    /\ entries \in {WithValues(es) : es \in MetricEntries}
    /\ csr = BuildCSR(entries)
    /\ x = KernelX(csr.cols)
    /\ opts \in [schedulingType : Policies, chunkSize : {0, MaxChunk},
                 numThreads : 1..MaxThreads]
    /\ openmp \in BOOLEAN
    /\ pc = "vector_ready"
    /\ err = ""
    /\ fn = "SpMV"
    /\ y = <<>> /\ wk = <<>> /\ nextIter = 0
    /\ assigned = <<>> /\ nwrites = <<>> /\ visited = <<>>
    /\ ySeq = <<>>
    /\ duration = 0
    /\ warm = NoWarmUp
    /\ warmSeq = NoWarmUp
    /\ rm = [FreshManager EXCEPT !.csrMatrix = "csr",
                                 !.numThreads = opts.numThreads,
                                 !.schedulingType = opts.schedulingType,
                                 !.chunkSize = opts.chunkSize,
                                 !.matrixName = MatrixName,
                                 !.sequential = FALSE]
    /\ samplesIn = <<>>
    /\ hist = NoHistory
    /\ \E n \in 1..2 :
          run = [NoRun EXCEPT !.iterations = n, !.filePath = MatrixPath,
                              !.maxThreads = MaxThreads]

NextTimed ==
    \/ TimedWarmUpCall
    \/ \E t \in DOMAIN wk : Grab(t)
    \/ \E t \in DOMAIN wk : Row(t)
    \/ \E t \in DOMAIN wk : Reduce(t)
    \/ TimedWarmUpReturn
    \/ TimedCall
    \/ TimedReturn
    \/ MainReport

SpecTimed == InitTimed /\ [][NextTimed]_vars

---------------------------------------------------------------------------
(* Properties of the measured part of main *)

TimedPassReturns == pc = "loop" /\ fn = "SpMV" /\ pc' = "warmed"

WarmUpReturns == pc = "loop" /\ fn = "warmUp" /\ pc' = "warmed"

(* Each return of a timed SpMV call appends the duration that call        *)
(* reported; the return of warmUp stores its duration as the warm-up      *)
(* duration; no other step touches the recorded samples                   *)
SamplesFollowCalls ==
    /\ TimedPassReturns =>
          rm'.iterationDurations = Append(rm.iterationDurations, duration')
    /\ WarmUpReturns =>
          /\ rm'.warmupDuration = duration'
          /\ rm'.iterationDurations = rm.iterationDurations
          /\ rm.iterationDurations = <<>>
    /\ ~TimedPassReturns => rm'.iterationDurations = rm.iterationDurations

(* A kernel call is entered only when no call is in progress: the one     *)
(* before it has returned and its whole team has passed the barrier       *)
CallsDoNotOverlap ==
    (pc # "loop" /\ pc' = "loop") =>
        /\ \A t \in DOMAIN wk : wk[t].pc = "done"
        /\ run.steps = <<>> \/ run.steps[Len(run.steps)] \in {"return warmUp", "return SpMV"}

(* The calls of a run with n timed iterations, in order *)
TimedRun(n) ==
    <<"call warmUp", "return warmUp">>
        \o [k \in 1..(2 * n) |-> IF k % 2 = 1 THEN "call SpMV" ELSE "return SpMV"]
        \o <<"computeAllMetrics">>

(* C23: in a successful run with N iterations the recorded samples are    *)
(* exactly N, the k-th is the duration the k-th timed SpMV call reported, *)
(* in call order, the warm-up duration is stored apart and not among      *)
(* them, and warmUp and each timed call start only after the call before  *)
(* has returned.                                                          *)
C23_SamplesInCallOrder ==
    /\ [][SamplesFollowCalls]_vars
    /\ [][CallsDoNotOverlap]_vars
    /\ []((pc # "loop") => \A t \in DOMAIN wk : wk[t].pc = "done")
    /\ []((Exited /\ run.exit = 0) =>
             /\ Len(rm.iterationDurations) = run.iterations
             /\ run.steps = TimedRun(run.iterations)
             /\ run.out[1].all_iteration_times_ms = rm.iterationDurations
             /\ run.out[1].warmUp_time_ms = rm.warmupDuration)

(* A run of two timed iterations on two threads has exited after          *)
(* measuring 10 ms and then 5 ms, the warm-up having taken 5 ms.          *)
C23_Witness ==
    /\ Exited /\ run.exit = 0
    /\ openmp /\ opts.numThreads = 2 /\ opts.schedulingType = "dynamic"
    /\ run.iterations = 2
    /\ rm.iterationDurations = <<10, 5>>
    /\ rm.warmupDuration = 5

---------------------------------------------------------------------------
(* C24: one warmUp pass started with both counters at 0 ends with         *)
(* flopsMoved = 2 * nnz and bytesMoved = 20 * nnz + 8 * rows, and the     *)
(* parallel warmUp ends with the same two totals as the sequential one,   *)
(* for every policy, chunk size, team size and interleaving.              *)
C24_WarmUpTotals ==
    /\ (pc = "returned" /\ fn = "warmUp") =>
          /\ warm.flopsMoved = 2 * csr.nnz
          /\ warm.bytesMoved = 20 * csr.nnz + 8 * csr.rows
    /\ (pc = "seq_returned") =>
          /\ warmSeq.flopsMoved = 2 * csr.nnz
          /\ warmSeq.bytesMoved = 20 * csr.nnz + 8 * csr.rows
          /\ (err = "") =>
                /\ warm.flopsMoved = warmSeq.flopsMoved
                /\ warm.bytesMoved = warmSeq.bytesMoved

(* Two threads under a dynamic schedule have shared the rows of a matrix  *)
(* with an empty row, and the sequential warmUp has run after them.       *)
C24_Witness ==
    /\ pc = "seq_returned" /\ err = ""
    /\ openmp /\ opts.numThreads = 2 /\ opts.schedulingType = "dynamic"
    /\ csr.rows = 3 /\ csr.nnz = 2
    /\ wk[0].flops > 0 /\ wk[1].flops > 0
    /\ warm.flopsMoved = 4 /\ warm.bytesMoved = 64

---------------------------------------------------------------------------
(* C25: after clear() the samples and the error list are empty and        *)
(* warmupDuration, duration90, flops, bytesMoved, gflops, bandwidthGBps   *)
(* and arithmeticIntensity are all 0, as in a manager just constructed.   *)
C25_ClearResetsEverything ==
    (pc = "rm_cleared") =>
        /\ rm.iterationDurations = <<>>
        /\ rm.errors = <<>>
        /\ rm.warmupDuration = 0
        /\ rm.duration90 = 0
        /\ rm.flops = 0
        /\ rm.bytesMoved = 0
        /\ rm.gflops = ZeroRate
        /\ rm.bandwidthGBps = ZeroRate
        /\ rm.arithmeticIntensity = ZeroRate

---------------------------------------------------------------------------
FailedComputeKeepsFields ==
    (ComputeAllMetrics /\ pc' = "rm_threw") =>
        /\ rm'.duration90 = rm.duration90
        /\ rm'.flops = rm.flops
        /\ rm'.gflops = rm.gflops
        /\ rm'.bandwidthGBps = rm.bandwidthGBps
        /\ rm'.arithmeticIntensity = rm.arithmeticIntensity
        /\ rm'.bytesMoved = rm.bytesMoved

(* C26: a computeAllMetrics call that throws (matrix null or empty, or no *)
(* sample recorded) leaves duration90, flops, gflops, bandwidthGBps,      *)
(* arithmeticIntensity and bytesMoved as they were before the call.       *)
C26_FailedComputeChangesNothing == [][FailedComputeKeepsFields]_vars

---------------------------------------------------------------------------
(* The dimensions the printed record reports are those the matrix of the   *)
(* run held, which is what a read of a living matrix returns               *)
PrintedFromLivingMatrix ==
    \A k \in 1..Len(run.out) :
        /\ run.out[k].matrix.rows = csr.rows
        /\ run.out[k].matrix.cols = csr.cols
        /\ run.out[k].matrix.nnz = csr.nnz

(* C27: whenever toJSON reads rows, cols and nnz through the pointer that *)
(* setInformation stored, the matrix is alive, so the record printed by a *)
(* run that ended, on the fatal-error path too, carries the dimensions of *)
(* the matrix as it was built.                                            *)
C27_RecordReadsLivingMatrix ==
    (Exited /\ rm.csrMatrix = "csr") => PrintedFromLivingMatrix

---------------------------------------------------------------------------
MatrixChanged == csr' # csr

FailedBuildKeepsMatrix ==
    /\ (pc' = "build_threw") => ~MatrixChanged
    /\ MatrixChanged => pc' \in {"built", "cleared"}
    /\ (pc' = "cleared") =>
          /\ csr'.rows = 0 /\ csr'.cols = 0 /\ csr'.nnz = 0
          /\ (pc = "cleared" => ~MatrixChanged)

(* C28: buildFromEntries with an empty vector throws and leaves rows,     *)
(* cols, nnz and the three arrays of an already built matrix as they      *)
(* were; the matrix changes only in a successful build or in clear();     *)
(* clear() sets rows, cols and nnz to 0 and a second clear() changes      *)
(* nothing.                                                               *)
C28_FailedBuildChangesNothing == [][FailedBuildKeepsMatrix]_vars

(* An empty build has failed on a matrix that holds entries *)
C28_Witness == pc = "build_threw" /\ csr.nnz > 0 /\ csr.indices # <<>>

---------------------------------------------------------------------------
(* C29: on every matrix the pipeline builds from an accepted file, with x *)
(* of length cols, each access of the kernel and of the warm-up stays in  *)
(* bounds: 0 <= i < rows, 0 <= j < nnz, 0 <= indices[j] < cols.           *)
C29_AccessesInBounds ==
    \A k \in 1..Len(visited) : InBounds(csr, x, visited[k])

---------------------------------------------------------------------------
(* The setters of ResultsManager that validate their argument *)

MaxErrors == 3

NegativeWarmupError == "Warmup duration cannot be negative."

EmptyMessageError == "Error message cannot be empty."

SetWarmupDuration(d) ==
    /\ IF d < 0
       THEN /\ err' = NegativeWarmupError
            /\ pc' = "rm_threw"
            /\ UNCHANGED rm
       ELSE /\ rm' = [rm EXCEPT !.warmupDuration = d]
            /\ pc' = "set"
            /\ UNCHANGED err
    /\ UNCHANGED <<run, csrVars, kernelVars, samplesIn, hist>>

(* Mutant: the message is stored before it is tested *)
AddErrorThenTest(msg) ==
    /\ rm' = [rm EXCEPT !.errors = Append(@, msg)]
    /\ IF msg = ""
       THEN /\ err' = EmptyMessageError
            /\ pc' = "rm_threw"
       ELSE /\ pc' = "set"
            /\ UNCHANGED err
    /\ UNCHANGED <<run, csrVars, kernelVars, samplesIn, hist>>

AddError(msg) ==
    /\ IF msg = ""
       THEN /\ err' = EmptyMessageError
            /\ pc' = "rm_threw"
            /\ UNCHANGED rm
       ELSE /\ rm' = [rm EXCEPT !.errors = Append(@, msg)]
            /\ pc' = "set"
            /\ UNCHANGED err
    /\ UNCHANGED <<run, csrVars, kernelVars, samplesIn, hist>>

(* Arguments the setters are called with *)
WarmupDurations == {-1, 0} \cup Durations

Messages == {"", "Warning: slow run", "Fatal error: no file"}

InitSetters ==
    /\ file = NoFile
    /\ entries = <<>>
    /\ csr = EmptyCSR
    /\ pc = "constructed"
    /\ err = ""
    /\ NoKernel
    /\ rm = FreshManager
    /\ samplesIn \in {Rising(1), Falling(3)}
    /\ hist = NoHistory
    /\ run = NoRun

NextSetters ==
    \/ SetInformation
    \/ \E name \in {MatrixName, "other.mtx"} : SetInformationSequential(name)
    \/ SetIterationDurations(samplesIn)
    \/ SetIterationDurations(<<>>)
    \/ \E d \in WarmupDurations : SetWarmupDuration(d)
    \/ \E msg \in Messages : Len(rm.errors) < MaxErrors /\ AddError(msg)

SpecSetters == InitSetters /\ [][NextSetters]_vars

SetterErrors == {EmptyDurationsError, NegativeWarmupError, EmptyMessageError}

RejectedLeavesState ==
    (pc' = "rm_threw") =>
        /\ err' \in SetterErrors
        /\ rm'.iterationDurations = rm.iterationDurations
        /\ rm'.warmupDuration = rm.warmupDuration
        /\ rm'.errors = rm.errors

ErrorsOnlyGrow ==
    (rm'.errors # rm.errors) =>
        /\ Len(rm'.errors) = Len(rm.errors) + 1
        /\ SubSeq(rm'.errors, 1, Len(rm.errors)) = rm.errors
        /\ rm'.errors[Len(rm'.errors)] # ""

(* C30: setIterationDurations with an empty vector, setWarmupDuration     *)
(* with a negative duration and addError with an empty message each throw *)
(* and leave the samples, the warm-up duration and the error list as they *)
(* were; addError with a non-empty message puts it after the messages     *)
(* recorded earlier and removes none.                                     *)
C30_SettersRejectInvalid == [][RejectedLeavesState /\ ErrorsOnlyGrow]_vars

(* An empty message has been rejected by a manager that holds samples, a  *)
(* warm-up duration and two messages                                      *)
C30_Witness ==
    /\ pc = "rm_threw"
    /\ err = EmptyMessageError
    /\ Len(rm.errors) = 2
    /\ rm.warmupDuration > 0
    /\ rm.iterationDurations # <<>>

===========================================================================
